---- MODULE Spec2Model ----
(***************************************************************************)
(* Model of src/main.py of ocr_supreme: the PDF triage pass                *)
(* (triage_pdf_fail_fast) and the recursive archive walker                 *)
(* (extract_archive_recursive) with the format detector it calls           *)
(* (is_archive_file).                                                      *)
(*                                                                         *)
(* Strings are modelled by what the code looks at: a text is a record      *)
(* [src, n, pad] where n is the length of the text once stripped and pad   *)
(* the number of leading/trailing whitespace characters; src tells a       *)
(* native text from an OCR text.  A path is the sequence of its            *)
(* "/"-separated segments.                                                 *)
(***************************************************************************)
EXTENDS Integers, Sequences, FiniteSets, TLC

(***************************************************************************)
(* Bounds of the model (not program constants).                            *)
(***************************************************************************)
MaxPages == 3
MaxOcrBudget == 2
MaxMembers == 3
MaxDepthSetting == 1
MaxUploadMembers == 2
MaxUploadPages == 1
MaxCallPages == 2
MaxCallMembers == 2

(***************************************************************************)
(* Program constants (defaults of the environment settings).               *)
(***************************************************************************)
PAGE_TEXT_THRESHOLD == 50
OCR_PAGE_CHAR_THRESHOLD == 15

VARIABLES
    OCR_MAX_PAGES_TO_CHECK, \* the setting read at start-up (main.py:28)
    pdf,                    \* the document behind `contents`
    pc,                     \* control point of triage_pdf_fail_fast
    i,                      \* loop variable of `for i in range(total_pages)`
    page_text,              \* stripped native text of the current page
    text_from_image,        \* result of quick_ocr_on_image for the current page
    accumulated_text,       \* list of contributions
    debug,                  \* the debug dict
    has_images,
    pages_with_images,
    result,                 \* the returned tuple, or NoResult
    calls                   \* log of the calls made on the collaborators

VARIABLES
    MAX_RECURSION_DEPTH,    \* the setting read at start-up (main.py:30)
    archive,                \* the uploaded container: its type, bytes and members
    stack,                  \* the active calls of extract_archive_recursive
    walked,                 \* what the outermost call returned, or NotReturned
    tmp_files,              \* the temporary files that exist on disk
    tmp_made,               \* how many temporary files were created so far
    log                     \* calls made, containers opened and members read, in order

VARIABLES
    detect                  \* one call of is_archive_file: its arguments and its return

VARIABLES
    endpoint,               \* the handler serving the request
    file,                   \* the upload: its filename and what its bytes are
    ingress,                \* the handler's locals is_archive and archive_type
    opc,                    \* control point of the handler
    processed_files,        \* the handler's list of ArchiveFileInfo
    response                \* what the handler answers, or NoResponse

VARIABLES
    triaged,                \* what triage returned on the document force OCR is then run on
    leaf                    \* what process_file_content returned for a PDF leaf

triVars == <<OCR_MAX_PAGES_TO_CHECK, pdf, pc, i, page_text, text_from_image,
             accumulated_text, debug, has_images, pages_with_images, result, calls>>

walkVars == <<MAX_RECURSION_DEPTH, archive, stack, walked, tmp_files, tmp_made, log>>

detVars == <<detect>>

orchVars == <<endpoint, file, ingress, opc, processed_files, response>>

useVars == <<triaged, leaf>>

vars == <<triVars, walkVars, detVars, orchVars, useVars>>

(***************************************************************************)
(* Texts.                                                                  *)
(***************************************************************************)
Txt(src, n, pad) == [src |-> src, n |-> n, pad |-> pad]

EmptyText == Txt("", 0, 0)

\* len(s)
StrLen(t) == t.n + t.pad

\* s.strip()
Strip(t) == IF t.n = 0 THEN EmptyText ELSE Txt(t.src, t.n, 0)

\* truth value of a string: `if s:`
Truthy(t) == StrLen(t) > 0

RECURSIVE SumLen(_)
SumLen(parts) ==
    IF parts = <<>> THEN 0 ELSE StrLen(Head(parts)) + SumLen(Tail(parts))

EmptyString == [chunks |-> <<>>, len |-> 0]

\* "\n\n".join(parts): the chunks in order, two separator characters between
\* consecutive chunks
Join(parts) ==
    LET total == SumLen(parts) + (IF Len(parts) > 1 THEN 2 * (Len(parts) - 1) ELSE 0)
    IN  IF total = 0 THEN EmptyString ELSE [chunks |-> parts, len |-> total]

(***************************************************************************)
(* The documents triage is run on.                                         *)
(***************************************************************************)
Page(text, images, renders, ocrRaises, ocrText) ==
    [text |-> text, images |-> images, renders |-> renders,
     ocrRaises |-> ocrRaises, ocrText |-> ocrText]

NativeHigh == Txt("native", PAGE_TEXT_THRESHOLD, 1)
NativeLow == Txt("native", PAGE_TEXT_THRESHOLD - 1, 2)
OcrMany == Txt("ocr", OCR_PAGE_CHAR_THRESHOLD + 1, 0)
OcrFew == Txt("ocr", OCR_PAGE_CHAR_THRESHOLD, 1)
OcrBlank == Txt("ocr", 0, 1)

PageKinds ==
    { Page(NativeHigh, FALSE, TRUE, FALSE, OcrMany),
      Page(NativeHigh, TRUE, TRUE, FALSE, OcrMany),
      Page(NativeLow, FALSE, TRUE, FALSE, OcrMany),
      Page(EmptyText, TRUE, TRUE, FALSE, Txt("ocr", OCR_PAGE_CHAR_THRESHOLD + 1, 1)),
      Page(NativeLow, FALSE, TRUE, FALSE, OcrFew),
      Page(EmptyText, FALSE, TRUE, FALSE, EmptyText),
      Page(NativeLow, TRUE, TRUE, TRUE, EmptyText),
      Page(EmptyText, FALSE, TRUE, FALSE, OcrBlank),
      Page(NativeLow, TRUE, FALSE, FALSE, EmptyText),
      Page(NativeLow, FALSE, TRUE, FALSE, EmptyText) }

RECURSIVE SeqsUpTo(_, _)
SeqsUpTo(S, n) ==
    IF n = 0 THEN {<<>>}
    ELSE LET shorter == SeqsUpTo(S, n - 1)
         IN  shorter \cup {Append(s, x) : s \in {t \in shorter : Len(t) = n - 1}, x \in S}

Pdfs ==
    {[opens |-> TRUE, pages |-> ps] : ps \in SeqsUpTo(PageKinds, MaxPages)}
        \cup {[opens |-> FALSE, pages |-> <<>>]}

NoResult == [classification |-> "none"]

NoReason == [page |-> -1, why |-> "none"]

NoCalls == [open |-> 0, load_page |-> <<>>, render |-> <<>>, ocr |-> <<>>]

TriageInit ==
    /\ OCR_MAX_PAGES_TO_CHECK \in 0..MaxOcrBudget
    /\ pdf \in Pdfs
    /\ pc = "open"
    /\ i = 0
    /\ page_text = EmptyText
    /\ text_from_image = EmptyText
    /\ accumulated_text = <<>>
    /\ debug = [pages_scanned |-> 0, pages_ocr_checked |-> 0, images_detected |-> 0,
                total_pages |-> 0, reason |-> NoReason, pages_with_images |-> <<>>]
    /\ has_images = FALSE
    /\ pages_with_images = <<>>
    /\ result = NoResult
    /\ calls = NoCalls

\* the page object pdf.load_page(i) yields (i counts from 0)
CurPage == pdf.pages[i + 1]

(***************************************************************************)
(* triage_pdf_fail_fast, one action per block of the function.             *)
(***************************************************************************)

\* variant: image presence tested before the page count
ClassifyEarlyImagesFirst(total_pages, hasImages) ==
    IF hasImages THEN "multipage_pdf_with_images"
    ELSE IF total_pages = 1 THEN "single_page_pdf"
    ELSE "multipage_pdf_text_only"

\* the three-way rule of lines 253-258 and 267-272
ClassifyEarly(total_pages, hasImages) ==
    IF total_pages = 1 THEN "single_page_pdf"
    ELSE IF hasImages THEN "multipage_pdf_with_images"
    ELSE "multipage_pdf_text_only"

\* variant: the page count is not tested in the branch with images
ClassifyFinalImagesFirst(total_pages, hasImages) ==
    IF hasImages
    THEN "multipage_pdf_with_images"
    ELSE (IF total_pages = 1 THEN "single_page_pdf" ELSE "multipage_pdf_text_only")

\* the nested rule of lines 279-288
ClassifyFinal(total_pages, hasImages) ==
    IF hasImages
    THEN (IF total_pages = 1 THEN "single_page_pdf" ELSE "multipage_pdf_with_images")
    ELSE (IF total_pages = 1 THEN "single_page_pdf" ELSE "multipage_pdf_text_only")

\* variant: a text of exactly the threshold length counts as low
LowTextInclusive(t) == StrLen(t) <= PAGE_TEXT_THRESHOLD

\* line 242
LowText(t) == StrLen(t) < PAGE_TEXT_THRESHOLD

\* variant: one sample too many
BudgetLeftInclusive(checked) == checked <= OCR_MAX_PAGES_TO_CHECK

\* line 243
BudgetLeft(checked) == checked < OCR_MAX_PAGES_TO_CHECK

\* variant: an OCR text of exactly the threshold length stops the scan
OcrCharsFoundAtLeast(t) == StrLen(Strip(t)) >= OCR_PAGE_CHAR_THRESHOLD

\* line 248
OcrCharsFound(t) == StrLen(Strip(t)) > OCR_PAGE_CHAR_THRESHOLD

\* variant: the early returns hand back what was accumulated
EarlyExitTextAccumulated(acc) == Join(acc)

\* the text of the early returns, lines 254-258 and 268-272: the literal ""
EarlyExitText(acc) == EmptyString

\* quick_ocr_on_image, lines 210-215: an engine failure is swallowed as ""
QuickOcr(p) == IF p.ocrRaises THEN EmptyText ELSE p.ocrText

\* lines 222-228: fitz.open succeeds
TriageOpen ==
    /\ pc = "open"
    /\ pdf.opens
    /\ calls' = [calls EXCEPT !.open = @ + 1]
    /\ debug' = [debug EXCEPT !.total_pages = Len(pdf.pages)]
    /\ has_images' = FALSE
    /\ pages_with_images' = <<>>
    /\ pc' = "for"
    /\ UNCHANGED <<OCR_MAX_PAGES_TO_CHECK, pdf, i, page_text, text_from_image,
                   accumulated_text, result>>
    /\ UNCHANGED <<walkVars, detVars, orchVars, useVars>>

\* lines 223, 290-291: fitz.open raises
TriageOpenError ==
    /\ pc = "open"
    /\ ~pdf.opens
    /\ calls' = [calls EXCEPT !.open = @ + 1]
    /\ result' = [classification |-> "error", text |-> EmptyString,
                  debug |-> [error |-> "open failed"]]
    /\ pc' = "done"
    /\ UNCHANGED <<OCR_MAX_PAGES_TO_CHECK, pdf, i, page_text, text_from_image,
                   accumulated_text, debug, has_images, pages_with_images>>
    /\ UNCHANGED <<walkVars, detVars, orchVars, useVars>>

\* lines 230-231: the loop takes its next index
TriageFor ==
    /\ pc = "for"
    /\ i < debug.total_pages
    /\ debug' = [debug EXCEPT !.pages_scanned = @ + 1]
    /\ pc' = "load"
    /\ UNCHANGED <<OCR_MAX_PAGES_TO_CHECK, pdf, i, page_text, text_from_image,
                   accumulated_text, has_images, pages_with_images, result, calls>>
    /\ UNCHANGED <<walkVars, detVars, orchVars, useVars>>

\* lines 232-240
TriageLoadPage ==
    /\ pc = "load"
    /\ calls' = [calls EXCEPT !.load_page = Append(@, i)]
    /\ IF CurPage.images
       THEN /\ has_images' = TRUE
            /\ pages_with_images' = Append(pages_with_images, i)
            /\ debug' = [debug EXCEPT !.images_detected = @ + 1]
       ELSE UNCHANGED <<has_images, pages_with_images, debug>>
    /\ page_text' = Strip(CurPage.text)
    /\ pc' = "branch"
    /\ UNCHANGED <<OCR_MAX_PAGES_TO_CHECK, pdf, i, text_from_image,
                   accumulated_text, result>>
    /\ UNCHANGED <<walkVars, detVars, orchVars, useVars>>

\* lines 273-274
TriageNative ==
    /\ pc = "branch"
    /\ ~LowText(page_text)
    /\ accumulated_text' = Append(accumulated_text, page_text)
    /\ i' = i + 1
    /\ pc' = "for"
    /\ UNCHANGED <<OCR_MAX_PAGES_TO_CHECK, pdf, page_text, text_from_image,
                   debug, has_images, pages_with_images, result, calls>>
    /\ UNCHANGED <<walkVars, detVars, orchVars, useVars>>

\* lines 243-246; quick_ocr_on_image (210-215) swallows an engine failure
TriageQuickOcr ==
    /\ pc = "branch"
    /\ LowText(page_text)
    /\ BudgetLeft(debug.pages_ocr_checked)
    /\ CurPage.renders
    /\ debug' = [debug EXCEPT !.pages_ocr_checked = @ + 1]
    /\ calls' = [calls EXCEPT !.render = Append(@, i), !.ocr = Append(@, i)]
    /\ text_from_image' = QuickOcr(CurPage)
    /\ pc' = "ocr_done"
    /\ UNCHANGED <<OCR_MAX_PAGES_TO_CHECK, pdf, i, page_text, accumulated_text,
                   has_images, pages_with_images, result>>
    /\ UNCHANGED <<walkVars, detVars, orchVars, useVars>>

\* lines 243-245, 290-291: render_page_to_pil raises
TriageRenderError ==
    /\ pc = "branch"
    /\ LowText(page_text)
    /\ BudgetLeft(debug.pages_ocr_checked)
    /\ ~CurPage.renders
    /\ debug' = [debug EXCEPT !.pages_ocr_checked = @ + 1]
    /\ calls' = [calls EXCEPT !.render = Append(@, i)]
    /\ result' = [classification |-> "error", text |-> EmptyString,
                  debug |-> [error |-> "render failed"]]
    /\ pc' = "done"
    /\ UNCHANGED <<OCR_MAX_PAGES_TO_CHECK, pdf, i, page_text, text_from_image,
                   accumulated_text, has_images, pages_with_images>>
    /\ UNCHANGED <<walkVars, detVars, orchVars, useVars>>

\* lines 248-258
TriageOcrStop ==
    /\ pc = "ocr_done"
    /\ OcrCharsFound(text_from_image)
    /\ debug' = [debug EXCEPT !.reason = [page |-> i, why |-> "ocr_chars_found"],
                              !.pages_with_images = pages_with_images]
    /\ result' = [classification |-> ClassifyEarly(debug.total_pages, has_images),
                  text |-> EarlyExitText(accumulated_text), debug |-> debug']
    /\ pc' = "done"
    /\ UNCHANGED <<OCR_MAX_PAGES_TO_CHECK, pdf, i, page_text, text_from_image,
                   accumulated_text, has_images, pages_with_images, calls>>
    /\ UNCHANGED <<walkVars, detVars, orchVars, useVars>>

\* variant: a sample without OCR text falls back on the native text of the page
TriageOcrContinueNativeFallback ==
    /\ pc = "ocr_done"
    /\ ~OcrCharsFound(text_from_image)
    /\ accumulated_text' = IF Truthy(text_from_image)
                           THEN Append(accumulated_text, text_from_image)
                           ELSE IF Truthy(page_text)
                                THEN Append(accumulated_text, page_text)
                                ELSE accumulated_text
    /\ i' = i + 1
    /\ pc' = "for"
    /\ UNCHANGED <<OCR_MAX_PAGES_TO_CHECK, pdf, page_text, text_from_image,
                   debug, has_images, pages_with_images, result, calls>>
    /\ UNCHANGED <<walkVars, detVars, orchVars, useVars>>

\* lines 248, 260-261
TriageOcrContinue ==
    /\ pc = "ocr_done"
    /\ ~OcrCharsFound(text_from_image)
    /\ accumulated_text' = IF Truthy(text_from_image)
                           THEN Append(accumulated_text, text_from_image)
                           ELSE accumulated_text
    /\ i' = i + 1
    /\ pc' = "for"
    /\ UNCHANGED <<OCR_MAX_PAGES_TO_CHECK, pdf, page_text, text_from_image,
                   debug, has_images, pages_with_images, result, calls>>
    /\ UNCHANGED <<walkVars, detVars, orchVars, useVars>>

\* lines 262-272
TriageLimitStop ==
    /\ pc = "branch"
    /\ LowText(page_text)
    /\ ~BudgetLeft(debug.pages_ocr_checked)
    /\ debug' = [debug EXCEPT !.reason = [page |-> i, why |-> "low_text_ocr_limit_exceeded"],
                              !.pages_with_images = pages_with_images]
    /\ result' = [classification |-> ClassifyEarly(debug.total_pages, has_images),
                  text |-> EarlyExitText(accumulated_text), debug |-> debug']
    /\ pc' = "done"
    /\ UNCHANGED <<OCR_MAX_PAGES_TO_CHECK, pdf, i, page_text, text_from_image,
                   accumulated_text, has_images, pages_with_images, calls>>
    /\ UNCHANGED <<walkVars, detVars, orchVars, useVars>>

\* lines 276-288
TriageFinish ==
    /\ pc = "for"
    /\ ~(i < debug.total_pages)
    /\ debug' = [debug EXCEPT !.pages_with_images = pages_with_images]
    /\ result' = [classification |-> ClassifyFinal(debug.total_pages, has_images),
                  text |-> Join(accumulated_text), debug |-> debug']
    /\ pc' = "done"
    /\ UNCHANGED <<OCR_MAX_PAGES_TO_CHECK, pdf, i, page_text, text_from_image,
                   accumulated_text, has_images, pages_with_images, calls>>
    /\ UNCHANGED <<walkVars, detVars, orchVars, useVars>>

TriageNext ==
    \/ TriageOpen
    \/ TriageOpenError
    \/ TriageFor
    \/ TriageLoadPage
    \/ TriageNative
    \/ TriageQuickOcr
    \/ TriageRenderError
    \/ TriageOcrStop
    \/ TriageOcrContinue
    \/ TriageLimitStop
    \/ TriageFinish

(***************************************************************************)
(* process_pdf_force_ocr, one action per block of the function.  It has    *)
(* the same locals as triage (accumulated_text, debug, pdf, i, page_text,  *)
(* text_from_image), which the model keeps in the same variables; its      *)
(* control points are named f_*.                                           *)
(***************************************************************************)
ForceInit ==
    /\ OCR_MAX_PAGES_TO_CHECK \in 0..MaxOcrBudget
    /\ pdf \in Pdfs
    /\ pc = "f_open"
    /\ i = 0
    /\ page_text = EmptyText
    /\ text_from_image = EmptyText
    /\ accumulated_text = <<>>
    /\ debug = [pages_scanned |-> 0, pages_ocr_applied |-> 0, total_pages |-> 0]
    /\ has_images = FALSE
    /\ pages_with_images = <<>>
    /\ result = NoResult
    /\ calls = NoCalls

\* variant: a text of exactly the threshold length is sent to OCR
ForceLowTextInclusive(t) == StrLen(t) <= PAGE_TEXT_THRESHOLD

\* line 179
ForceLowText(t) == StrLen(t) < PAGE_TEXT_THRESHOLD

\* final_text.strip(): what is left of the joined text once trimmed; the
\* separators and the padding of the chunks are whitespace
StripJoined(s) ==
    LET seen == {k \in 1..Len(s.chunks) : s.chunks[k].n > 0}
    IN  IF seen = {} THEN EmptyString
        ELSE LET first == CHOOSE k \in seen : \A j \in seen : k <= j
                 last == CHOOSE k \in seen : \A j \in seen : j <= k
                 kept == [k \in 1..(last - first + 1) |->
                            IF k = 1 \/ k = last - first + 1
                            THEN Strip(s.chunks[first + k - 1])
                            ELSE s.chunks[first + k - 1]]
             IN  Join(kept)

\* variant: any non-empty text counts, whitespace included
ForceStatusNonEmpty(final_text) ==
    IF final_text # EmptyString THEN "processed" ELSE "ocr_failed"

\* lines 197-200
ForceStatus(final_text) ==
    IF StripJoined(final_text) # EmptyString THEN "processed" ELSE "ocr_failed"

\* lines 166-169: fitz.open succeeds
ForceOpen ==
    /\ pc = "f_open"
    /\ pdf.opens
    /\ calls' = [calls EXCEPT !.open = @ + 1]
    /\ debug' = [debug EXCEPT !.total_pages = Len(pdf.pages)]
    /\ pc' = "f_for"
    /\ UNCHANGED <<OCR_MAX_PAGES_TO_CHECK, pdf, i, page_text, text_from_image,
                   accumulated_text, has_images, pages_with_images, result>>
    /\ UNCHANGED <<walkVars, detVars, orchVars, useVars>>

\* variant: a document that does not open is reported as an OCR failure
ForceOpenErrorAsOcrFailed ==
    /\ pc = "f_open"
    /\ ~pdf.opens
    /\ calls' = [calls EXCEPT !.open = @ + 1]
    /\ result' = [status |-> "ocr_failed", text |-> EmptyString, debug |-> debug]
    /\ pc' = "f_done"
    /\ UNCHANGED <<OCR_MAX_PAGES_TO_CHECK, pdf, i, page_text, text_from_image,
                   accumulated_text, debug, has_images, pages_with_images>>
    /\ UNCHANGED <<walkVars, detVars, orchVars, useVars>>

\* lines 167, 202-203: fitz.open raises
ForceOpenError ==
    /\ pc = "f_open"
    /\ ~pdf.opens
    /\ calls' = [calls EXCEPT !.open = @ + 1]
    /\ result' = [status |-> "error", text |-> EmptyString,
                  debug |-> [error |-> "open failed"]]
    /\ pc' = "f_done"
    /\ UNCHANGED <<OCR_MAX_PAGES_TO_CHECK, pdf, i, page_text, text_from_image,
                   accumulated_text, debug, has_images, pages_with_images>>
    /\ UNCHANGED <<walkVars, detVars, orchVars, useVars>>

\* lines 171-172: the loop takes its next index
ForceFor ==
    /\ pc = "f_for"
    /\ i < debug.total_pages
    /\ debug' = [debug EXCEPT !.pages_scanned = @ + 1]
    /\ pc' = "f_load"
    /\ UNCHANGED <<OCR_MAX_PAGES_TO_CHECK, pdf, i, page_text, text_from_image,
                   accumulated_text, has_images, pages_with_images, result, calls>>
    /\ UNCHANGED <<walkVars, detVars, orchVars, useVars>>

\* variant: the native text is kept with its surrounding whitespace
ForceLoadPageUntrimmed ==
    /\ pc = "f_load"
    /\ calls' = [calls EXCEPT !.load_page = Append(@, i)]
    /\ page_text' = CurPage.text
    /\ pc' = "f_branch"
    /\ UNCHANGED <<OCR_MAX_PAGES_TO_CHECK, pdf, i, text_from_image, accumulated_text,
                   debug, has_images, pages_with_images, result>>
    /\ UNCHANGED <<walkVars, detVars, orchVars, useVars>>

\* lines 173-176
ForceLoadPage ==
    /\ pc = "f_load"
    /\ calls' = [calls EXCEPT !.load_page = Append(@, i)]
    /\ page_text' = Strip(CurPage.text)
    /\ pc' = "f_branch"
    /\ UNCHANGED <<OCR_MAX_PAGES_TO_CHECK, pdf, i, text_from_image, accumulated_text,
                   debug, has_images, pages_with_images, result>>
    /\ UNCHANGED <<walkVars, detVars, orchVars, useVars>>

\* lines 189-191
ForceNative ==
    /\ pc = "f_branch"
    /\ ~ForceLowText(page_text)
    /\ accumulated_text' = Append(accumulated_text, page_text)
    /\ i' = i + 1
    /\ pc' = "f_for"
    /\ UNCHANGED <<OCR_MAX_PAGES_TO_CHECK, pdf, page_text, text_from_image,
                   debug, has_images, pages_with_images, result, calls>>
    /\ UNCHANGED <<walkVars, detVars, orchVars, useVars>>

\* variant: a low-text page without OCR text contributes nothing
ForceOcrNoFallback ==
    /\ pc = "f_branch"
    /\ ForceLowText(page_text)
    /\ CurPage.renders
    /\ debug' = [debug EXCEPT !.pages_ocr_applied = @ + 1]
    /\ calls' = [calls EXCEPT !.render = Append(@, i), !.ocr = Append(@, i)]
    /\ text_from_image' = QuickOcr(CurPage)
    /\ accumulated_text' =
           IF Truthy(QuickOcr(CurPage)) THEN Append(accumulated_text, QuickOcr(CurPage))
           ELSE accumulated_text
    /\ i' = i + 1
    /\ pc' = "f_for"
    /\ UNCHANGED <<OCR_MAX_PAGES_TO_CHECK, pdf, page_text, has_images,
                   pages_with_images, result>>
    /\ UNCHANGED <<walkVars, detVars, orchVars, useVars>>

\* lines 179-188: render, OCR (an engine failure is swallowed as ""), then the
\* OCR text if it is truthy, else the native text if it is truthy
ForceOcr ==
    /\ pc = "f_branch"
    /\ ForceLowText(page_text)
    /\ CurPage.renders
    /\ debug' = [debug EXCEPT !.pages_ocr_applied = @ + 1]
    /\ calls' = [calls EXCEPT !.render = Append(@, i), !.ocr = Append(@, i)]
    /\ text_from_image' = QuickOcr(CurPage)
    /\ accumulated_text' =
           IF Truthy(QuickOcr(CurPage)) THEN Append(accumulated_text, QuickOcr(CurPage))
           ELSE IF Truthy(page_text) THEN Append(accumulated_text, page_text)
           ELSE accumulated_text
    /\ i' = i + 1
    /\ pc' = "f_for"
    /\ UNCHANGED <<OCR_MAX_PAGES_TO_CHECK, pdf, page_text, has_images,
                   pages_with_images, result>>
    /\ UNCHANGED <<walkVars, detVars, orchVars, useVars>>

\* lines 179-181, 202-203: render_page_to_pil raises
ForceRenderError ==
    /\ pc = "f_branch"
    /\ ForceLowText(page_text)
    /\ ~CurPage.renders
    /\ debug' = [debug EXCEPT !.pages_ocr_applied = @ + 1]
    /\ calls' = [calls EXCEPT !.render = Append(@, i)]
    /\ result' = [status |-> "error", text |-> EmptyString,
                  debug |-> [error |-> "render failed"]]
    /\ pc' = "f_done"
    /\ UNCHANGED <<OCR_MAX_PAGES_TO_CHECK, pdf, i, page_text, text_from_image,
                   accumulated_text, has_images, pages_with_images>>
    /\ UNCHANGED <<walkVars, detVars, orchVars, useVars>>

\* lines 193-200
ForceFinish ==
    /\ pc = "f_for"
    /\ ~(i < debug.total_pages)
    /\ result' = [status |-> ForceStatus(Join(accumulated_text)),
                  text |-> IF ForceStatus(Join(accumulated_text)) = "processed"
                           THEN Join(accumulated_text) ELSE EmptyString,
                  debug |-> debug]
    /\ pc' = "f_done"
    /\ UNCHANGED <<OCR_MAX_PAGES_TO_CHECK, pdf, i, page_text, text_from_image,
                   accumulated_text, debug, has_images, pages_with_images, calls>>
    /\ UNCHANGED <<walkVars, detVars, orchVars, useVars>>

ForceNext ==
    \/ ForceOpen
    \/ ForceOpenError
    \/ ForceFor
    \/ ForceLoadPage
    \/ ForceNative
    \/ ForceOcr
    \/ ForceRenderError
    \/ ForceFinish

(***************************************************************************)
(* The archive walker.                                                     *)
(*                                                                         *)
(* A name or a path is the sequence of its "/"-separated segments: "a.txt" *)
(* is <<"a.txt">>, the directory entry "d/" is <<"d", "">> and the         *)
(* absolute name "/a.txt" is <<"", "a.txt">>.  Bytes are a record          *)
(* [id, sig, format]: sig is the leading signature, format what a reader   *)
(* can open them as, id tells the bytes of one member from another's.      *)
(*                                                                         *)
(* The uploaded container is a table of members.  Member k names           *)
(* nodes[k].parent as the member holding it (0: the uploaded container);   *)
(* the listing of a container is its members in the order of the table.    *)
(***************************************************************************)
Bytes(id, sig, format) == [id |-> id, sig |-> sig, format |-> format]

MemberKinds ==
    { [name |-> <<"a.txt">>, readable |-> TRUE, sig |-> "other", format |-> "none", size |-> 5],
      [name |-> <<"a.txt">>, readable |-> FALSE, sig |-> "other", format |-> "none", size |-> 6],
      [name |-> <<"in.zip">>, readable |-> TRUE, sig |-> "PK34", format |-> "zip", size |-> 7],
      [name |-> <<"in.rar">>, readable |-> TRUE, sig |-> "Rar!", format |-> "rar", size |-> 8],
      [name |-> <<"in.zip">>, readable |-> TRUE, sig |-> "other", format |-> "none", size |-> 9],
      [name |-> <<"in.zip", "a.txt">>, readable |-> TRUE, sig |-> "other", format |-> "none", size |-> 4],
      [name |-> <<"d", "">>, readable |-> TRUE, sig |-> "empty", format |-> "none", size |-> 0],
      [name |-> <<"", "a.txt">>, readable |-> TRUE, sig |-> "other", format |-> "none", size |-> 5] }

RootKinds ==
    { [archive_type |-> "zip", sig |-> "PK34", format |-> "zip"],
      [archive_type |-> "rar", sig |-> "Rar!", format |-> "rar"],
      [archive_type |-> "zip", sig |-> "other", format |-> "none"],
      [archive_type |-> "rar", sig |-> "other", format |-> "none"] }

\* member k of table ns and the members above it, up to the uploaded container
RECURSIVE Ancestors(_, _)
Ancestors(ns, k) ==
    IF k = 0 THEN {0} ELSE {k} \cup Ancestors(ns, ns[k].parent)

\* who may hold the next member of table ns: the last member or one above it,
\* when its bytes are a container
Holders(ns, rootFormat) ==
    {c \in Ancestors(ns, Len(ns)) :
        IF c = 0 THEN rootFormat # "none" ELSE ns[c].content.format # "none"}

RECURSIVE Tables(_, _)
Tables(n, rootFormat) ==
    IF n = 0 THEN {<<>>}
    ELSE LET shorter == Tables(n - 1, rootFormat)
         IN  shorter \cup
             UNION { { Append(ns, [parent |-> c, name |-> m.name, readable |-> m.readable,
                                   size |-> m.size,
                                   content |-> Bytes(Len(ns) + 1, m.sig, m.format)]) :
                         c \in Holders(ns, rootFormat), m \in MemberKinds } :
                     ns \in {t \in shorter : Len(t) = n - 1} }

Archives ==
    UNION { { [archive_type |-> r.archive_type, content |-> Bytes(0, r.sig, r.format),
               nodes |-> ns] : ns \in Tables(MaxMembers, r.format) } : r \in RootKinds }

NotReturned == <<[status |-> "not returned"]>>

NoTmp == 0

WalkIdle ==
    /\ MAX_RECURSION_DEPTH = 0
    /\ archive = [archive_type |-> "zip", content |-> Bytes(0, "other", "none"), nodes |-> <<>>]
    /\ stack = <<>>
    /\ walked = NotReturned
    /\ tmp_files = {}
    /\ tmp_made = 0
    /\ log = [calls |-> <<>>, opened |-> <<>>, read |-> <<>>]

\* a call extract_archive_recursive(contents, archive_type, current_path, depth);
\* container is the member whose bytes `contents` are, via the listed member that
\* led to the call and call the number of the call (bookkeeping)
Frame(call, container, via, contents, archive_type, current_path, depth) ==
    [call |-> call, container |-> container, via |-> via, contents |-> contents,
     archive_type |-> archive_type,
     current_path |-> current_path, depth |-> depth, pc |-> "entry", pos |-> 1,
     extracted_files |-> <<>>, tmp_path |-> NoTmp]

\* the orchestrator's call: extract_archive_recursive(contents, archive_type)
WalkInit ==
    /\ MAX_RECURSION_DEPTH \in 0..MaxDepthSetting
    /\ archive \in Archives
    /\ stack = <<Frame(1, 0, 0, archive.content, archive.archive_type, <<>>, 0)>>
    /\ walked = NotReturned
    /\ tmp_files = {}
    /\ tmp_made = 0
    /\ log = [calls |-> <<[container |-> 0, via |-> 0, caller |-> 0, depth |-> 0,
                            archive_type |-> archive.archive_type,
                            current_path |-> <<>>]>>,
              opened |-> <<>>, read |-> <<>>]

TriageIdle ==
    /\ OCR_MAX_PAGES_TO_CHECK = 0
    /\ pdf = [opens |-> FALSE, pages |-> <<>>]
    /\ pc = "idle"
    /\ i = 0
    /\ page_text = EmptyText
    /\ text_from_image = EmptyText
    /\ accumulated_text = <<>>
    /\ debug = [pages_scanned |-> 0, pages_ocr_checked |-> 0, images_detected |-> 0,
                total_pages |-> 0, reason |-> NoReason, pages_with_images |-> <<>>]
    /\ has_images = FALSE
    /\ pages_with_images = <<>>
    /\ result = NoResult
    /\ calls = NoCalls

(***************************************************************************)
(* Names and paths.                                                        *)
(***************************************************************************)
Last(name) == name[Len(name)]

\* ZipInfo.is_dir / RarInfo.isdir: the name ends with "/"
IsDir(name) == Last(name) = ""

\* the name starts with "/"
IsAbs(name) == Len(name) > 1 /\ name[1] = ""

\* os.path.join(a, b) for a non-empty a: an absolute b discards a
OsPathJoin(a, b) ==
    IF IsAbs(b) THEN b
    ELSE IF Last(a) = "" THEN SubSeq(a, 1, Len(a) - 1) \o b
    ELSE a \o b

\* variant: the path of the enclosing container is left out
FilePathNameOnly(current_path, filename) == filename

\* line 359 (and 407)
FilePath(current_path, filename) ==
    IF current_path # <<>> THEN OsPathJoin(current_path, filename) ELSE filename

\* os.path.basename
Basename(name) == Last(name)

\* str.lower on the last segment of a name
Lower(seg) ==
    CASE seg = "IN.ZIP" -> "in.zip"
      [] seg = "In.Zip" -> "in.zip"
      [] seg = "IN.RAR" -> "in.rar"
      [] seg = "A.TXT" -> "a.txt"
      [] OTHER -> seg

\* lower_name.endswith('.zip')
EndsWithZip(seg) == seg \in {"in.zip", "up.zip", ".zip"}

\* lower_name.endswith('.rar')
EndsWithRar(seg) == seg \in {"in.rar", "up.rar"}

\* truth value of a bytes argument: None and b"" are false
HasBytes(contents) == contents.sig \notin {"absent", "empty"}

\* contents.startswith(b'PK')
StartsWithPK(contents) == contents.sig \in {"PK34", "PK56", "PK78"}

\* zipfile.is_zipfile(io.BytesIO(contents))
IsZipfile(contents) == contents.format = "zip"

\* variant: the content signature is looked at before the extension
IsArchiveFileSignatureFirst(filename, contents) ==
    LET lower_name == Lower(Last(filename))
    IN  IF HasBytes(contents) /\ contents.sig \in {"PK34", "PK56"} THEN <<TRUE, "zip">>
        ELSE IF HasBytes(contents) /\ contents.sig = "Rar!" THEN <<TRUE, "rar">>
        ELSE IF EndsWithZip(lower_name) THEN <<TRUE, "zip">>
        ELSE IF EndsWithRar(lower_name) THEN <<TRUE, "rar">>
        ELSE <<FALSE, "">>

\* is_archive_file(filename, contents), lines 295-328: <<is_archive, type>>
IsArchiveFile(filename, contents) ==
    LET lower_name == Lower(Last(filename))
    IN  IF EndsWithZip(lower_name)
        THEN IF HasBytes(contents)
             THEN IF StartsWithPK(contents) \/ IsZipfile(contents)
                  THEN <<TRUE, "zip">>
                  ELSE <<TRUE, "zip">>
             ELSE <<TRUE, "zip">>
        ELSE IF EndsWithRar(lower_name) THEN <<TRUE, "rar">>
        ELSE IF HasBytes(contents) /\ contents.sig \in {"PK34", "PK56"} THEN <<TRUE, "zip">>
        ELSE IF HasBytes(contents) /\ contents.sig = "Rar!" THEN <<TRUE, "rar">>
        ELSE <<FALSE, "">>

(***************************************************************************)
(* The container readers.                                                  *)
(***************************************************************************)
Nodes == archive.nodes

\* archive.filelist / archive.infolist() of container c, in listing order
Listing(c) ==
    SelectSeq([k \in 1..Len(Nodes) |-> k], LAMBDA k : Nodes[k].parent = c)

\* archive.read(name) looks the member up by name: of several members of one
\* name the reader returns the last one listed
ReadTarget(c, name) ==
    CHOOSE k \in 1..Len(Nodes) :
        /\ Nodes[k].parent = c /\ Nodes[k].name = name
        /\ \A j \in 1..Len(Nodes) : (Nodes[j].parent = c /\ Nodes[j].name = name) => j <= k

\* zipfile.ZipFile(...) / rarfile.RarFile(...) accept the bytes
Opens(archive_type, contents) == contents.format = archive_type

\* variant: the guard lets one more level through
DepthExceededOffByOne(depth) == depth > MAX_RECURSION_DEPTH + 1

\* line 343
DepthExceeded(depth) == depth > MAX_RECURSION_DEPTH

(***************************************************************************)
(* The dicts of the returned list.  `member` and `call` are bookkeeping:    *)
(* the listed member an entry was made for (for an error about a           *)
(* container, the member that led to it) and the call that made it.        *)
(***************************************************************************)
ExtractedEntry(f, p, r, file_path) ==
    [filename |-> Basename(Nodes[p].name), path_in_archive |-> file_path,
     size |-> Nodes[p].size, contents |-> Nodes[r].content, status |-> "extracted",
     member |-> p, call |-> f.call]

ReadErrorEntry(f, p, file_path) ==
    [filename |-> Basename(Nodes[p].name), path_in_archive |-> file_path,
     size |-> Nodes[p].size, status |-> "error", error |-> "read failed",
     member |-> p, call |-> f.call]

DepthErrorEntry(f) ==
    [filename |-> f.current_path, status |-> "error",
     error |-> "max recursion depth reached", member |-> f.via, call |-> f.call]

\* variant: the entry is named by current_path even when that is empty
OpenErrorEntryNoRoot(f, message) ==
    [filename |-> f.current_path,
     status |-> "error", error |-> message, member |-> f.via, call |-> f.call]

OpenErrorEntry(f, message) ==
    [filename |-> IF f.current_path # <<>> THEN f.current_path ELSE <<"root">>,
     status |-> "error", error |-> message, member |-> f.via, call |-> f.call]

Top == stack[Len(stack)]

Running == stack # <<>>

\* variant: the caller puts the nested result in front of its own entries
DeliverNestedFirst(ret) ==
    IF Len(stack) = 1
    THEN /\ stack' = <<>>
         /\ walked' = ret
    ELSE /\ stack' = [SubSeq(stack, 1, Len(stack) - 1) EXCEPT ![Len(stack) - 1] =
                         [@ EXCEPT !.extracted_files = ret \o @, !.pos = @ + 1]]
         /\ UNCHANGED walked

\* `return ret`: the caller extends its list with it (line 375) and goes on to the
\* next member; the outermost call hands it to the orchestrator
Deliver(ret) ==
    IF Len(stack) = 1
    THEN /\ stack' = <<>>
         /\ walked' = ret
    ELSE /\ stack' = [SubSeq(stack, 1, Len(stack) - 1) EXCEPT ![Len(stack) - 1] =
                         [@ EXCEPT !.extracted_files = @ \o ret, !.pos = @ + 1]]
         /\ UNCHANGED walked

SetTop(f) == stack' = [stack EXCEPT ![Len(stack)] = f]

(***************************************************************************)
(* extract_archive_recursive, one action per block of the function, each   *)
(* acting on the innermost active call.                                    *)
(***************************************************************************)

\* lines 343-348
WalkDepthExceeded ==
    /\ Running
    /\ Top.pc = "entry"
    /\ DepthExceeded(Top.depth)
    /\ Deliver(<<DepthErrorEntry(Top)>>)
    /\ UNCHANGED <<MAX_RECURSION_DEPTH, archive, tmp_files, tmp_made, log>>
    /\ UNCHANGED <<triVars, detVars, orchVars, useVars>>

\* lines 353-354: zipfile.ZipFile opens the bytes
WalkOpenZip ==
    /\ Running
    /\ Top.pc = "entry"
    /\ ~DepthExceeded(Top.depth)
    /\ Top.archive_type = "zip"
    /\ Opens("zip", Top.contents)
    /\ SetTop([Top EXCEPT !.pc = "loop"])
    /\ log' = [log EXCEPT !.opened = Append(@, [call |-> Top.call,
                                                 depth |-> Top.depth, ok |-> TRUE])]
    /\ UNCHANGED <<MAX_RECURSION_DEPTH, archive, walked, tmp_files, tmp_made>>
    /\ UNCHANGED <<triVars, detVars, orchVars, useVars>>

\* lines 354, 449-456: zipfile.ZipFile raises
WalkOpenZipError ==
    /\ Running
    /\ Top.pc = "entry"
    /\ ~DepthExceeded(Top.depth)
    /\ Top.archive_type = "zip"
    /\ ~Opens("zip", Top.contents)
    /\ Deliver(Append(Top.extracted_files, OpenErrorEntry(Top, "bad zip file")))
    /\ log' = [log EXCEPT !.opened = Append(@, [call |-> Top.call,
                                                 depth |-> Top.depth, ok |-> FALSE])]
    /\ UNCHANGED <<MAX_RECURSION_DEPTH, archive, tmp_files, tmp_made>>
    /\ UNCHANGED <<triVars, detVars, orchVars, useVars>>

\* lines 395-399: the temporary file is created and written
WalkRarTemp ==
    /\ Running
    /\ Top.pc = "entry"
    /\ ~DepthExceeded(Top.depth)
    /\ Top.archive_type = "rar"
    /\ tmp_made' = tmp_made + 1
    /\ tmp_files' = tmp_files \cup {tmp_made + 1}
    /\ SetTop([Top EXCEPT !.pc = "rar_open", !.tmp_path = tmp_made + 1])
    /\ UNCHANGED <<MAX_RECURSION_DEPTH, archive, walked, log>>
    /\ UNCHANGED <<triVars, detVars, orchVars, useVars>>

\* lines 396-397, 449-456: the file is created, tmp.write raises before tmp_path
\* is bound, and the handler of line 449 takes over
WalkRarTempError ==
    /\ Running
    /\ Top.pc = "entry"
    /\ ~DepthExceeded(Top.depth)
    /\ Top.archive_type = "rar"
    /\ tmp_made' = tmp_made + 1
    /\ tmp_files' = tmp_files \cup {tmp_made + 1}
    /\ Deliver(Append(Top.extracted_files, OpenErrorEntry(Top, "write failed")))
    /\ UNCHANGED <<MAX_RECURSION_DEPTH, archive, log>>
    /\ UNCHANGED <<triVars, detVars, orchVars, useVars>>

\* lines 401-402: rarfile.RarFile opens the temporary file
WalkOpenRar ==
    /\ Running
    /\ Top.pc = "rar_open"
    /\ Opens("rar", Top.contents)
    /\ SetTop([Top EXCEPT !.pc = "loop"])
    /\ log' = [log EXCEPT !.opened = Append(@, [call |-> Top.call,
                                                 depth |-> Top.depth, ok |-> TRUE])]
    /\ UNCHANGED <<MAX_RECURSION_DEPTH, archive, walked, tmp_files, tmp_made>>
    /\ UNCHANGED <<triVars, detVars, orchVars, useVars>>

\* lines 402, 442-456: rarfile.RarFile raises; the finally clause unlinks
WalkOpenRarError ==
    /\ Running
    /\ Top.pc = "rar_open"
    /\ ~Opens("rar", Top.contents)
    /\ tmp_files' = tmp_files \ {Top.tmp_path}
    /\ Deliver(Append(Top.extracted_files, OpenErrorEntry(Top, "not a rar file")))
    /\ log' = [log EXCEPT !.opened = Append(@, [call |-> Top.call,
                                                 depth |-> Top.depth, ok |-> FALSE])]
    /\ UNCHANGED <<MAX_RECURSION_DEPTH, archive, tmp_made>>
    /\ UNCHANGED <<triVars, detVars, orchVars, useVars>>

\* the member the loop of line 355 (403) is at
AtMember == Top.pc = "loop" /\ Top.pos <= Len(Listing(Top.container))

CurMember == Listing(Top.container)[Top.pos]

CurName == Nodes[CurMember].name

CurRead == ReadTarget(Top.container, CurName)

\* variant: a directory entry is looked at again instead of being passed over
WalkSkipDirStays ==
    /\ Running
    /\ AtMember
    /\ IsDir(CurName)
    /\ SetTop([Top EXCEPT !.pos = @])
    /\ UNCHANGED <<MAX_RECURSION_DEPTH, archive, walked, tmp_files, tmp_made, log>>
    /\ UNCHANGED <<triVars, detVars, orchVars, useVars>>

\* lines 356-357 (404-405)
WalkSkipDir ==
    /\ Running
    /\ AtMember
    /\ IsDir(CurName)
    /\ SetTop([Top EXCEPT !.pos = @ + 1])
    /\ UNCHANGED <<MAX_RECURSION_DEPTH, archive, walked, tmp_files, tmp_made, log>>
    /\ UNCHANGED <<triVars, detVars, orchVars, useVars>>

\* variant: the failed read is not caught per member, and the handler of the
\* whole container (line 449) ends the call
WalkReadErrorAborts ==
    /\ Running
    /\ AtMember
    /\ ~IsDir(CurName)
    /\ ~Nodes[CurRead].readable
    /\ tmp_files' = IF Top.archive_type = "rar" THEN tmp_files \ {Top.tmp_path} ELSE tmp_files
    /\ Deliver(Append(Top.extracted_files, OpenErrorEntry(Top, "read failed")))
    /\ log' = [log EXCEPT !.read = Append(@, [call |-> Top.call,
                                               member |-> CurMember, ok |-> FALSE])]
    /\ UNCHANGED <<MAX_RECURSION_DEPTH, archive, tmp_made>>
    /\ UNCHANGED <<triVars, detVars, orchVars, useVars>>

\* lines 359-362, 386-393 (407-410, 434-441): archive.read raises
WalkReadError ==
    /\ Running
    /\ AtMember
    /\ ~IsDir(CurName)
    /\ ~Nodes[CurRead].readable
    /\ SetTop([Top EXCEPT
                 !.extracted_files =
                     Append(@, ReadErrorEntry(Top, CurMember, FilePath(Top.current_path, CurName))),
                 !.pos = @ + 1])
    /\ log' = [log EXCEPT !.read = Append(@, [call |-> Top.call,
                                               member |-> CurMember, ok |-> FALSE])]
    /\ UNCHANGED <<MAX_RECURSION_DEPTH, archive, walked, tmp_files, tmp_made>>
    /\ UNCHANGED <<triVars, detVars, orchVars, useVars>>

\* lines 359-365, 376-384 (407-413, 424-432): a member that is no archive
WalkExtract ==
    /\ Running
    /\ AtMember
    /\ ~IsDir(CurName)
    /\ Nodes[CurRead].readable
    /\ ~IsArchiveFile(CurName, Nodes[CurRead].content)[1]
    /\ SetTop([Top EXCEPT
                 !.extracted_files =
                     Append(@, ExtractedEntry(Top, CurMember, CurRead,
                                              FilePath(Top.current_path, CurName))),
                 !.pos = @ + 1])
    /\ log' = [log EXCEPT !.read = Append(@, [call |-> Top.call,
                                               member |-> CurMember, ok |-> TRUE])]
    /\ UNCHANGED <<MAX_RECURSION_DEPTH, archive, walked, tmp_files, tmp_made>>
    /\ UNCHANGED <<triVars, detVars, orchVars, useVars>>

\* lines 359-374 (407-422): a member that is an archive: the nested call starts
WalkRecurse ==
    /\ Running
    /\ AtMember
    /\ ~IsDir(CurName)
    /\ Nodes[CurRead].readable
    /\ IsArchiveFile(CurName, Nodes[CurRead].content)[1]
    /\ stack' = Append(stack,
                       Frame(Len(log.calls) + 1, CurRead, CurMember, Nodes[CurRead].content,
                             IsArchiveFile(CurName, Nodes[CurRead].content)[2],
                             FilePath(Top.current_path, CurName), Top.depth + 1))
    /\ log' = [log EXCEPT
                 !.read = Append(@, [call |-> Top.call, member |-> CurMember, ok |-> TRUE]),
                 !.calls = Append(@, [container |-> CurRead, via |-> CurMember,
                                      caller |-> Top.call, depth |-> Top.depth + 1,
                                      archive_type |->
                                          IsArchiveFile(CurName, Nodes[CurRead].content)[2],
                                      current_path |-> FilePath(Top.current_path, CurName)])]
    /\ UNCHANGED <<MAX_RECURSION_DEPTH, archive, walked, tmp_files, tmp_made>>
    /\ UNCHANGED <<triVars, detVars, orchVars, useVars>>

\* the loop is over: lines 442-447 for a rar container, then line 456
WalkReturn ==
    /\ Running
    /\ Top.pc = "loop"
    /\ Top.pos > Len(Listing(Top.container))
    /\ tmp_files' = IF Top.archive_type = "rar" THEN tmp_files \ {Top.tmp_path} ELSE tmp_files
    /\ Deliver(Top.extracted_files)
    /\ UNCHANGED <<MAX_RECURSION_DEPTH, archive, tmp_made, log>>
    /\ UNCHANGED <<triVars, detVars, orchVars, useVars>>

WalkNext ==
    \/ WalkDepthExceeded
    \/ WalkOpenZip
    \/ WalkOpenZipError
    \/ WalkRarTemp
    \/ WalkRarTempError
    \/ WalkOpenRar
    \/ WalkOpenRarError
    \/ WalkSkipDir
    \/ WalkReadError
    \/ WalkExtract
    \/ WalkRecurse
    \/ WalkReturn

NoDetect == [filename |-> <<"">>, contents |-> Bytes(0, "absent", "none"), ret |-> <<>>]

DetectIdle == detect = NoDetect

NoResponse == [status |-> "none"]

\* no request is being served: the function under study is called directly
OrchIdle ==
    /\ endpoint = "none"
    /\ file = [filename |-> <<"">>, holds |-> "nothing"]
    /\ ingress = [is_archive |-> FALSE, archive_type |-> ""]
    /\ opc = "idle"
    /\ processed_files = <<>>
    /\ response = NoResponse

NoTriaged == [result |-> NoResult, calls |-> NoCalls]

NoLeaf == [status |-> "none"]

\* no caller is holding the result of a PDF pass
UseIdle ==
    /\ triaged = NoTriaged
    /\ leaf = NoLeaf

\* a triage call, the rest not in use
InitTriage ==
    /\ TriageInit
    /\ WalkIdle
    /\ DetectIdle
    /\ UseIdle
    /\ OrchIdle

\* a walk, the rest not in use
InitWalk ==
    /\ WalkInit
    /\ TriageIdle
    /\ DetectIdle
    /\ UseIdle
    /\ OrchIdle

(***************************************************************************)
(* is_archive_file called on its own.                                      *)
(***************************************************************************)
DetectNames ==
    { <<"in.zip">>, <<"IN.ZIP">>, <<"In.Zip">>, <<".zip">>, <<"d", "in.zip">>,
      <<"in.rar">>, <<"IN.RAR">>, <<"d", "IN.RAR">>,
      <<"a.txt">>, <<"A.TXT">>, <<"zip">>, <<"rar">>, <<"in.zip.txt">>, <<"in.rar.bak">>,
      <<"in.zip", "">>, <<"in.zip", "a.txt">> }

\* the bytes handed over: none, empty, or bytes with a leading signature that a
\* reader accepts as zip, as rar, or not at all
DetectContents ==
    { Bytes(0, "absent", "none"), Bytes(0, "empty", "none"),
      Bytes(0, "PK34", "zip"), Bytes(0, "PK34", "none"),
      Bytes(0, "PK56", "zip"), Bytes(0, "PK56", "none"),
      Bytes(0, "PK78", "none"), Bytes(0, "other", "zip"),
      Bytes(0, "Rar!", "rar"), Bytes(0, "Rar!", "none"),
      Bytes(0, "Rar?", "none"), Bytes(0, "other", "none") }

DetectInit ==
    /\ detect \in [filename : DetectNames, contents : DetectContents, ret : {<<>>}]

\* lines 295-328
DetectCall ==
    /\ detect.ret = <<>>
    /\ detect' = [detect EXCEPT !.ret = IsArchiveFile(detect.filename, detect.contents)]
    /\ UNCHANGED <<triVars, walkVars, orchVars, useVars>>

DetectNext ==
    \/ DetectCall

\* a call of is_archive_file, the rest not in use
InitDetect ==
    /\ DetectInit
    /\ TriageIdle
    /\ WalkIdle
    /\ OrchIdle
    /\ UseIdle

(***************************************************************************)
(* The endpoints process_file, only_ocr and process_archive.  An upload is *)
(* a filename and bytes; the bytes are a container (described by           *)
(* `archive`), a PDF (described by `pdf`) or plain text.                   *)
(***************************************************************************)
Endpoints == {"process_file", "only_ocr", "process_archive"}

UploadRootKinds ==
    { [sig |-> "PK34", format |-> "zip"],
      [sig |-> "Rar!", format |-> "rar"],
      [sig |-> "PK34", format |-> "none"],
      [sig |-> "other", format |-> "none"] }

\* the containers uploaded; archive_type is filled in by the handler
UploadArchives ==
    UNION { { [archive_type |-> "", content |-> Bytes(0, r.sig, r.format),
               nodes |-> ns] : ns \in Tables(MaxUploadMembers, r.format) } :
            r \in UploadRootKinds }

UploadPdfs ==
    {[opens |-> TRUE, pages |-> ps] : ps \in SeqsUpTo(PageKinds, MaxUploadPages)}
        \cup {[opens |-> FALSE, pages |-> <<>>]}

PdfBytes == Bytes(0, "%PDF", "pdf")

TextBytes == Bytes(0, "other", "none")

\* contents, as the handler sees them
UploadBytes == 
    IF file.holds = "archive" THEN archive.content
    ELSE IF file.holds = "pdf" THEN PdfBytes
    ELSE TextBytes

\* the upload arrives: `contents = await file.read()` (lines 655, 832, 1063)
EndpointInit ==
    /\ endpoint \in Endpoints
    /\ \/ /\ file \in [filename : {<<"up.zip">>, <<"up.rar">>, <<"up.bin">>}, holds : {"archive"}]
          /\ archive \in UploadArchives
          /\ MAX_RECURSION_DEPTH \in 0..MaxDepthSetting
          /\ pdf = [opens |-> FALSE, pages |-> <<>>]
          /\ OCR_MAX_PAGES_TO_CHECK = MaxOcrBudget
       \/ /\ file \in [filename : {<<"up.pdf">>}, holds : {"pdf"}]
          /\ pdf \in UploadPdfs
          /\ OCR_MAX_PAGES_TO_CHECK \in 0..MaxOcrBudget
          /\ archive = [archive_type |-> "", content |-> PdfBytes, nodes |-> <<>>]
          /\ MAX_RECURSION_DEPTH = MaxDepthSetting
       \/ /\ file \in [filename : {<<"a.txt">>, <<"in.zip">>}, holds : {"text"}]
          /\ pdf = [opens |-> FALSE, pages |-> <<>>]
          /\ OCR_MAX_PAGES_TO_CHECK = MaxOcrBudget
          /\ archive = [archive_type |-> "", content |-> TextBytes, nodes |-> <<>>]
          /\ MAX_RECURSION_DEPTH = MaxDepthSetting
    /\ pc = "idle"
    /\ i = 0
    /\ page_text = EmptyText
    /\ text_from_image = EmptyText
    /\ accumulated_text = <<>>
    /\ debug = [pages_scanned |-> 0, pages_ocr_checked |-> 0, images_detected |-> 0,
                total_pages |-> 0, reason |-> NoReason, pages_with_images |-> <<>>]
    /\ has_images = FALSE
    /\ pages_with_images = <<>>
    /\ result = NoResult
    /\ calls = NoCalls
    /\ stack = <<>>
    /\ walked = NotReturned
    /\ tmp_files = {}
    /\ tmp_made = 0
    /\ log = [calls |-> <<>>, opened |-> <<>>, read |-> <<>>]
    /\ ingress = [is_archive |-> FALSE, archive_type |-> ""]
    /\ opc = "ingress"
    /\ processed_files = <<>>
    /\ response = NoResponse

\* lines 661-685 (838-862): the signature is looked at first, then is_archive_file
SniffThenName(filename, contents) ==
    IF HasBytes(contents) /\ StartsWithPK(contents) /\ IsZipfile(contents)
    THEN <<TRUE, "zip">>
    ELSE IF HasBytes(contents) /\ contents.sig = "Rar!" THEN <<TRUE, "rar">>
    ELSE IsArchiveFile(filename, contents)

\* what each handler takes the upload for: lines 661-685, 838-862, 1066
IngressDecision ==
    IF endpoint = "process_archive"
    THEN IsArchiveFile(file.filename, UploadBytes)
    ELSE SniffThenName(file.filename, UploadBytes)

\* process_file_content / process_file_content_force_ocr on the bytes of a leaf
\* (lines 458-546, 548-645), for the leaves the containers of the model hold:
\* plain text goes to process_text, anything else is unsupported
ProcessFileContent(filename, contents) ==
    IF contents.sig = "other" /\ Last(filename) = "a.txt"
    THEN [status |-> "processed", extracted_text |-> contents, error |-> "None"]
    ELSE [status |-> "unsupported", extracted_text |-> "None", error |-> "unsupported"]

\* file_info.get(key, default)
Get(e, key, default) == IF key \in DOMAIN e THEN e[key] ELSE default

\* lines 696-719 (873-896, 1078-1101): the ArchiveFileInfo made for one entry
FileInfoOf(e) ==
    IF Get(e, "status", "None") = "error"
    THEN [filename |-> Get(e, "filename", <<"unknown">>),
          path_in_archive |-> Get(e, "path_in_archive", <<>>),
          size |-> Get(e, "size", 0),
          extracted_text |-> "None", status |-> "error", error |-> Get(e, "error", "None")]
    ELSE LET r == ProcessFileContent(<<e.filename>>, e.contents)
         IN  [filename |-> e.filename, path_in_archive |-> e.path_in_archive,
              size |-> e.size, extracted_text |-> r.extracted_text,
              status |-> r.status, error |-> r.error]

\* lines 687-691 (864-868, 1071-1073): the upload is taken for an archive and the
\* walker is called
OrchWalk ==
    /\ opc = "ingress"
    /\ IngressDecision[1]
    /\ ingress' = [is_archive |-> TRUE, archive_type |-> IngressDecision[2]]
    /\ archive' = [archive EXCEPT !.archive_type = IngressDecision[2]]
    /\ stack' = <<Frame(1, 0, 0, archive.content, IngressDecision[2], <<>>, 0)>>
    /\ log' = [log EXCEPT !.calls = <<[container |-> 0, via |-> 0, caller |-> 0, depth |-> 0,
                                        archive_type |-> IngressDecision[2],
                                        current_path |-> <<>>]>>]
    /\ opc' = "walk"
    /\ UNCHANGED <<MAX_RECURSION_DEPTH, walked, tmp_files, tmp_made>>
    /\ UNCHANGED <<endpoint, file, processed_files, response>>
    /\ UNCHANGED <<triVars, detVars, useVars>>

\* lines 1066-1069: process_archive refuses what is_archive_file does not accept
OrchNotAnArchive ==
    /\ opc = "ingress"
    /\ endpoint = "process_archive"
    /\ ~IngressDecision[1]
    /\ ingress' = [is_archive |-> FALSE, archive_type |-> IngressDecision[2]]
    /\ response' = [status |-> "http_400"]
    /\ opc' = "done"
    /\ UNCHANGED <<endpoint, file, processed_files>>
    /\ UNCHANGED <<triVars, walkVars, detVars, useVars>>

\* lines 750-768: process_file hands a PDF to triage
OrchTriage ==
    /\ opc = "ingress"
    /\ endpoint = "process_file"
    /\ ~IngressDecision[1]
    /\ file.holds = "pdf"
    /\ ingress' = [is_archive |-> FALSE, archive_type |-> IngressDecision[2]]
    /\ opc' = "pdf"
    /\ pc' = "open"
    /\ UNCHANGED <<OCR_MAX_PAGES_TO_CHECK, pdf, i, page_text, text_from_image,
                   accumulated_text, debug, has_images, pages_with_images, result, calls>>
    /\ UNCHANGED <<endpoint, file, processed_files, response>>
    /\ UNCHANGED <<walkVars, detVars, useVars>>

\* lines 927-946: only_ocr hands a PDF to the force pass
OrchForce ==
    /\ opc = "ingress"
    /\ endpoint = "only_ocr"
    /\ ~IngressDecision[1]
    /\ file.holds = "pdf"
    /\ ingress' = [is_archive |-> FALSE, archive_type |-> IngressDecision[2]]
    /\ opc' = "pdf"
    /\ pc' = "f_open"
    /\ debug' = [pages_scanned |-> 0, pages_ocr_applied |-> 0, total_pages |-> 0]
    /\ UNCHANGED <<OCR_MAX_PAGES_TO_CHECK, pdf, i, page_text, text_from_image,
                   accumulated_text, has_images, pages_with_images, result, calls>>
    /\ UNCHANGED <<endpoint, file, processed_files, response>>
    /\ UNCHANGED <<walkVars, detVars, useVars>>

\* lines 814-816 (1039-1046): plain text is answered directly
OrchText ==
    /\ opc = "ingress"
    /\ endpoint \in {"process_file", "only_ocr"}
    /\ ~IngressDecision[1]
    /\ file.holds = "text"
    /\ ingress' = [is_archive |-> FALSE, archive_type |-> IngressDecision[2]]
    /\ response' = [status |-> "processed", content |-> UploadBytes]
    /\ opc' = "done"
    /\ UNCHANGED <<endpoint, file, processed_files>>
    /\ UNCHANGED <<triVars, walkVars, detVars, useVars>>

\* lines 818-823 (1048-1052): bytes of no supported type; process_file wraps its
\* own HTTPException 400 into a 500, only_ocr lets it through
OrchUnsupported ==
    /\ opc = "ingress"
    /\ endpoint \in {"process_file", "only_ocr"}
    /\ ~IngressDecision[1]
    /\ file.holds = "archive"
    /\ ingress' = [is_archive |-> FALSE, archive_type |-> IngressDecision[2]]
    /\ response' = [status |-> IF endpoint = "process_file" THEN "http_500" ELSE "http_400"]
    /\ opc' = "done"
    /\ UNCHANGED <<endpoint, file, processed_files>>
    /\ UNCHANGED <<triVars, walkVars, detVars, useVars>>

\* lines 695-719 (872-896, 1077-1101): one turn of the loop over the walker's list
OrchProcessEntry ==
    /\ opc = "walk"
    /\ stack = <<>> /\ walked # NotReturned
    /\ Len(processed_files) < Len(walked)
    /\ processed_files' = Append(processed_files, FileInfoOf(walked[Len(processed_files) + 1]))
    /\ UNCHANGED <<endpoint, file, ingress, opc, response>>
    /\ UNCHANGED <<triVars, walkVars, detVars, useVars>>

\* lines 721-744 (898-921, 1103-1114): the loop is over and the handler answers
OrchAnswerArchive ==
    /\ opc = "walk"
    /\ stack = <<>> /\ walked # NotReturned
    /\ Len(processed_files) = Len(walked)
    /\ response' = [status |-> "processed",
                    total_files |-> Len(processed_files),
                    successfully_processed |->
                        Cardinality({k \in 1..Len(processed_files) :
                                        processed_files[k].status = "processed"}),
                    files |-> processed_files]
    /\ opc' = "done"
    /\ UNCHANGED <<endpoint, file, ingress, processed_files>>
    /\ UNCHANGED <<triVars, walkVars, detVars, useVars>>

\* lines 771-793: the status process_file answers with after triage
TriageResponseStatus(classification, text) ==
    CASE classification = "single_page_pdf" ->
            (IF text # EmptyString THEN "processed" ELSE "single_page_pdf")
      [] classification = "multipage_pdf_with_images" -> "multipage_pdf_with_images"
      [] classification = "multipage_pdf_text_only" ->
            (IF text # EmptyString THEN "processed" ELSE "multipage_pdf_text_only")
      [] classification = "error" -> "error"
      [] OTHER -> "requires_ocr"

\* lines 768-793
OrchAnswerTriage ==
    /\ opc = "pdf"
    /\ pc = "done"
    /\ response' = [status |-> TriageResponseStatus(result.classification, result.text),
                    content |-> result.text]
    /\ opc' = "done"
    /\ UNCHANGED <<endpoint, file, ingress, processed_files>>
    /\ UNCHANGED <<triVars, walkVars, detVars, useVars>>

\* lines 946-970
OrchAnswerForce ==
    /\ opc = "pdf"
    /\ pc = "f_done"
    /\ response' = [status |-> CASE result.status = "processed" -> "processed"
                                 [] result.status = "ocr_failed" -> "requires_external_ocr"
                                 [] OTHER -> "error",
                    content |-> result.text]
    /\ opc' = "done"
    /\ UNCHANGED <<endpoint, file, ingress, processed_files>>
    /\ UNCHANGED <<triVars, walkVars, detVars, useVars>>

EndpointNext ==
    \/ OrchWalk
    \/ OrchNotAnArchive
    \/ OrchTriage
    \/ OrchForce
    \/ OrchText
    \/ OrchUnsupported
    \/ OrchProcessEntry
    \/ OrchAnswerArchive
    \/ OrchAnswerTriage
    \/ OrchAnswerForce
    \/ WalkNext
    \/ TriageNext
    \/ ForceNext

\* a request to one of the endpoints
InitEndpoint ==
    /\ EndpointInit
    /\ DetectIdle
    /\ UseIdle

\* a force-OCR call, the rest not in use
InitForce ==
    /\ ForceInit
    /\ WalkIdle
    /\ DetectIdle
    /\ UseIdle
    /\ OrchIdle

\* either PDF pass called on a document
InitPdf ==
    /\ TriageInit \/ ForceInit
    /\ WalkIdle
    /\ DetectIdle
    /\ UseIdle
    /\ OrchIdle

PdfNext ==
    \/ TriageNext
    \/ ForceNext

(***************************************************************************)
(* The two PDF passes called one after the other on the same bytes: the    *)
(* result and the calls of triage are kept, force OCR starts afresh.       *)
(***************************************************************************)
ForceAfterTriage ==
    /\ pc = "done"
    /\ triaged = NoTriaged
    /\ triaged' = [result |-> result, calls |-> calls]
    /\ UNCHANGED <<OCR_MAX_PAGES_TO_CHECK, pdf>>
    /\ pc' = "f_open"
    /\ i' = 0
    /\ page_text' = EmptyText
    /\ text_from_image' = EmptyText
    /\ accumulated_text' = <<>>
    /\ debug' = [pages_scanned |-> 0, pages_ocr_applied |-> 0, total_pages |-> 0]
    /\ has_images' = FALSE
    /\ pages_with_images' = <<>>
    /\ result' = NoResult
    /\ calls' = NoCalls
    /\ leaf' = leaf
    /\ UNCHANGED <<walkVars, detVars, orchVars>>

BothNext ==
    \/ TriageNext
    \/ ForceAfterTriage
    \/ ForceNext

(***************************************************************************)
(* process_file_content on the bytes of a leaf recognised as a PDF (by its *)
(* MIME type or its %PDF signature): triage is run, then lines 505-510     *)
(* make the answer out of the text alone.                                  *)
(***************************************************************************)
\* truth value of a joined string: `if accumulated_text:`
TruthyString(s) == s.len > 0

\* variant: a triage error is reported as an error carrying its message
PdfLeafAnswerPropagatesError(pdf_classification, text, dbg) ==
    IF pdf_classification = "error"
    THEN [status |-> "error", extracted_text |-> "None", error |-> dbg.error]
    ELSE IF TruthyString(text)
    THEN [status |-> "processed", extracted_text |-> text, error |-> "None"]
    ELSE [status |-> "requires_ocr", extracted_text |-> "None", error |-> "PDF requer OCR"]

\* lines 507-510
PdfLeafAnswer(pdf_classification, text, dbg) ==
    IF TruthyString(text)
    THEN [status |-> "processed", extracted_text |-> text, error |-> "None"]
    ELSE [status |-> "requires_ocr", extracted_text |-> "None", error |-> "PDF requer OCR"]

\* lines 504-510: triage has returned, process_file_content returns
ProcessFileContentPdf ==
    /\ pc = "done"
    /\ leaf = NoLeaf
    /\ leaf' = PdfLeafAnswer(result.classification, result.text, result.debug)
    /\ triaged' = triaged
    /\ UNCHANGED <<triVars, walkVars, detVars, orchVars>>

LeafNext ==
    \/ TriageNext
    \/ ProcessFileContentPdf

(***************************************************************************)
(* One call of triage_pdf_fail_fast, of process_pdf_force_ocr or of        *)
(* extract_archive_recursive.  The functions are sequential code in which  *)
(* every step is followed by the next as long as the collaborators (the    *)
(* PDF library, the OCR engine, the archive readers) return: a call that   *)
(* can take a step does take it.                                           *)
(***************************************************************************)
InitCall ==
    /\ InitTriage \/ InitForce \/ InitWalk
    /\ Len(pdf.pages) <= MaxCallPages
    /\ Len(archive.nodes) <= MaxCallMembers

CallNext ==
    \/ TriageNext
    \/ ForceNext
    \/ WalkNext

SpecBoth == InitTriage /\ [][BothNext]_vars

SpecLeaf == InitTriage /\ [][LeafNext]_vars

SpecCall == InitCall /\ [][CallNext]_vars /\ WF_vars(CallNext)

SpecTriage == InitTriage /\ [][TriageNext]_vars

SpecWalk == InitWalk /\ [][WalkNext]_vars

SpecForce == InitForce /\ [][ForceNext]_vars

SpecPdf == InitPdf /\ [][PdfNext]_vars

SpecEndpoint == InitEndpoint /\ [][EndpointNext]_vars

SpecDetect == InitDetect /\ [][DetectNext]_vars

(***************************************************************************)
(* What the document itself says about where a triage run must end,       *)
(* stated on the input alone (page k counts from 0).                       *)
(***************************************************************************)
NumPages == Len(pdf.pages)

PageIds == 0..(NumPages - 1)

\* trimmed length of the native text of page k
NativeLen(k) == pdf.pages[k + 1].text.n

\* trimmed length of what quick OCR yields for page k
OcrLen(k) == IF pdf.pages[k + 1].ocrRaises THEN 0 ELSE pdf.pages[k + 1].ocrText.n

IsLowPage(k) == NativeLen(k) < PAGE_TEXT_THRESHOLD

LowBefore(k) == Cardinality({m \in 0..(k - 1) : IsLowPage(m)})

SampledPage(k) == IsLowPage(k) /\ LowBefore(k) < OCR_MAX_PAGES_TO_CHECK

OcrStopPage(k) ==
    SampledPage(k) /\ pdf.pages[k + 1].renders /\ OcrLen(k) > OCR_PAGE_CHAR_THRESHOLD

LimitStopPage(k) == IsLowPage(k) /\ LowBefore(k) >= OCR_MAX_PAGES_TO_CHECK

RenderErrorPage(k) == SampledPage(k) /\ ~pdf.pages[k + 1].renders

ExitPage(k) == OcrStopPage(k) \/ LimitStopPage(k) \/ RenderErrorPage(k)

FirstExitPage(k) == k \in PageIds /\ ExitPage(k) /\ \A m \in 0..(k - 1) : ~ExitPage(m)

Elems(s) == {s[k] : k \in 1..Len(s)}

Returned == pc = "done"

ReturnedOk == pc = "done" /\ result.classification # "error"

\* some page among the first n has embedded images
ImagesAmongFirst(n) == \E k \in 1..n : pdf.pages[k].images

ClassificationRule(total, images) ==
    IF total = 1 THEN "single_page_pdf"
    ELSE IF images THEN "multipage_pdf_with_images"
    ELSE "multipage_pdf_text_only"

(***************************************************************************)
(* C1: pages are visited in increasing index order, and at the first page  *)
(* k that is low on native text and whose quick OCR has more than          *)
(* ocrCharThreshold trimmed characters (budget not exhausted) the scan     *)
(* stops: no page after k is ever loaded, rendered or OCRed, and the       *)
(* return has pagesScanned = k+1, the reason naming page k and an empty    *)
(* text, whatever the accumulator holds.                                   *)
(***************************************************************************)
C1_FailFastStopsAtPage ==
    /\ \A n \in 1..Len(calls.load_page) : calls.load_page[n] = n - 1
    /\ \A k \in PageIds :
         (pdf.opens /\ FirstExitPage(k) /\ OcrStopPage(k)) =>
            /\ \A m \in Elems(calls.load_page) \cup Elems(calls.render) \cup Elems(calls.ocr) :
                 m <= k
            /\ debug.pages_scanned <= k + 1
            /\ Returned =>
                 /\ result.classification # "error"
                 /\ result.text = EmptyString
                 /\ result.debug.pages_scanned = k + 1
                 /\ result.debug.reason = [page |-> k, why |-> "ocr_chars_found"]
                 /\ calls.load_page[Len(calls.load_page)] = k

\* the scan stopped on OCR at a page that is not the last, with text accumulated
C1_Witness ==
    /\ Returned
    /\ result.classification # "error"
    /\ result.debug.reason.why = "ocr_chars_found"
    /\ result.debug.reason.page + 1 < NumPages
    /\ accumulated_text # <<>>
    /\ result.text = EmptyString

(***************************************************************************)
(* C2: in every state of a triage run, and in the debug info of every      *)
(* non-error return, pagesScanned <= totalPages and                        *)
(* pagesOcrChecked <= maxPagesToCheck.                                     *)
(***************************************************************************)
C2_CountersBounded ==
    /\ debug.pages_scanned <= debug.total_pages
    /\ debug.total_pages <= NumPages
    /\ debug.pages_ocr_checked <= OCR_MAX_PAGES_TO_CHECK
    /\ ReturnedOk =>
         /\ result.debug.pages_scanned <= result.debug.total_pages
         /\ result.debug.total_pages = NumPages
         /\ result.debug.pages_ocr_checked <= OCR_MAX_PAGES_TO_CHECK

\* both counters at their bounds on a return
C2_Witness ==
    /\ ReturnedOk
    /\ OCR_MAX_PAGES_TO_CHECK > 0
    /\ result.debug.pages_ocr_checked = OCR_MAX_PAGES_TO_CHECK
    /\ result.debug.pages_scanned = NumPages
    /\ \E k \in PageIds : LimitStopPage(k)

(***************************************************************************)
(* C3: if every page has trimmed native text of length >= pageTextThreshold*)
(* triage never renders a page, never runs quick OCR (pagesOcrChecked is 0)*)
(* never exits early, and classifies by totalPages and by whether any page *)
(* has embedded images.                                                    *)
(***************************************************************************)
C3_AllNativeNoOcr ==
    (pdf.opens /\ \A k \in PageIds : ~IsLowPage(k)) =>
        /\ calls.render = <<>>
        /\ calls.ocr = <<>>
        /\ debug.pages_ocr_checked = 0
        /\ debug.reason = NoReason
        /\ Returned =>
             /\ result.debug.pages_ocr_checked = 0
             /\ result.debug.reason = NoReason
             /\ result.debug.pages_scanned = NumPages
             /\ result.classification = ClassificationRule(NumPages, ImagesAmongFirst(NumPages))

\* a document of several pages, all with enough native text, some with images
C3_Witness ==
    /\ Returned
    /\ pdf.opens
    /\ NumPages >= 2
    /\ \A k \in PageIds : ~IsLowPage(k)
    /\ \E k \in PageIds : pdf.pages[k + 1].images
    /\ \E k \in PageIds : ~pdf.pages[k + 1].images

(***************************************************************************)
(* C4: a one-page PDF is classified single_page_pdf at every non-error     *)
(* return, whatever its text, images and OCR result.                       *)
(***************************************************************************)
C4_OnePageIsSinglePage ==
    (ReturnedOk /\ NumPages = 1) => result.classification = "single_page_pdf"

\* a one-page document with images leaving by the OCR fail-fast exit
C4_Witness ==
    /\ ReturnedOk
    /\ NumPages = 1
    /\ pdf.pages[1].images
    /\ result.debug.reason.why = "ocr_chars_found"

(***************************************************************************)
(* C5: at every non-error return the classification is single_page_pdf if  *)
(* totalPages = 1, else multipage_pdf_with_images if a page visited so far *)
(* has embedded images, else multipage_pdf_text_only; images on pages      *)
(* after the exit page do not count.                                       *)
(***************************************************************************)
C5_ClassificationRule ==
    ReturnedOk =>
        result.classification =
            ClassificationRule(NumPages, ImagesAmongFirst(result.debug.pages_scanned))

\* an early exit before the only page that has images
C5_Witness ==
    /\ ReturnedOk
    /\ result.debug.reason # NoReason
    /\ ~ImagesAmongFirst(result.debug.pages_scanned)
    /\ ImagesAmongFirst(NumPages)
    /\ result.classification = "multipage_pdf_text_only"

(***************************************************************************)
(* C6: when a low-text page k is reached with pagesOcrChecked already at   *)
(* maxPagesToCheck, triage stops at k without rendering or OCRing it:      *)
(* pagesOcrChecked stays at maxPagesToCheck, the returned text is empty,   *)
(* the reason is "page k low text ocr limit exceeded" and the              *)
(* classification uses the pages seen so far.                              *)
(***************************************************************************)
C6_BudgetExhaustedStop ==
    \A k \in PageIds :
        (pdf.opens /\ FirstExitPage(k) /\ LimitStopPage(k)) =>
            /\ k \notin Elems(calls.render) \cup Elems(calls.ocr)
            /\ \A m \in Elems(calls.load_page) : m <= k
            /\ Returned =>
                 /\ result.classification =
                        ClassificationRule(NumPages, ImagesAmongFirst(k + 1))
                 /\ result.text = EmptyString
                 /\ result.debug.pages_ocr_checked = OCR_MAX_PAGES_TO_CHECK
                 /\ result.debug.pages_scanned = k + 1
                 /\ result.debug.reason =
                        [page |-> k, why |-> "low_text_ocr_limit_exceeded"]

\* the budget ran out after OCR text had been accumulated
C6_Witness ==
    /\ ReturnedOk
    /\ result.debug.reason.why = "low_text_ocr_limit_exceeded"
    /\ OCR_MAX_PAGES_TO_CHECK > 0
    /\ accumulated_text # <<>>
    /\ result.debug.reason.page + 1 < NumPages
    /\ result.text = EmptyString

(***************************************************************************)
(* Reading a walk: the lists being built, the calls made so far.           *)
(***************************************************************************)
WalkDone == stack = <<>> /\ walked # NotReturned

\* the entries made so far, wherever they are by now
Entries ==
    UNION ({Elems(stack[k].extracted_files) : k \in 1..Len(stack)}
               \cup (IF walked # NotReturned THEN {Elems(walked)} ELSE {}))

CallIds == 1..Len(log.calls)

\* the calls whose container was opened
OpenedCalls == {log.opened[k].call : k \in {j \in 1..Len(log.opened) : log.opened[j].ok}}

\* positions of the returned list holding entries that call c made for member p
PositionsOf(c, p) == {k \in 1..Len(walked) : walked[k].call = c /\ walked[k].member = p}

\* member m lies beneath member c in the uploaded container
Beneath(c, m) == m # c /\ c # 0 /\ c \in Ancestors(Nodes, m)

HasPath(e) == "path_in_archive" \in DOMAIN e

\* a "/" b, segment by segment
SlashJoin(a, b) == IF a = <<>> THEN b ELSE a \o b

IsPrefix(a, b) == Len(a) <= Len(b) /\ SubSeq(b, 1, Len(a)) = a

(***************************************************************************)
(* C7: a container reached at a depth above maxRecursionDepth is never     *)
(* opened: its call makes no read and no nested call, returns exactly one  *)
(* error entry tagged with its currentPath, and no entry is ever made for  *)
(* a member beneath it; every container that is opened was entered at a    *)
(* depth <= maxRecursionDepth.                                             *)
(***************************************************************************)
C7_TooDeepNeverOpened ==
    /\ \A k \in 1..Len(log.opened) : log.opened[k].depth <= MAX_RECURSION_DEPTH
    /\ \A k \in 1..Len(stack) :
         stack[k].pc # "entry" => stack[k].depth <= MAX_RECURSION_DEPTH
    /\ \A c \in CallIds :
         log.calls[c].depth > MAX_RECURSION_DEPTH =>
            /\ \A k \in 1..Len(log.opened) : log.opened[k].call # c
            /\ \A k \in 1..Len(log.read) : log.read[k].call # c
            /\ \A d \in CallIds : log.calls[d].caller # c
            /\ \A e \in Entries : ~Beneath(log.calls[c].container, e.member)
            /\ WalkDone =>
                 \E k \in 1..Len(walked) :
                    /\ walked[k].call = c
                    /\ walked[k].status = "error"
                    /\ walked[k].filename = log.calls[c].current_path
                    /\ walked[k].error = "max recursion depth reached"
                    /\ ~HasPath(walked[k])
                    /\ \A j \in 1..Len(walked) : walked[j].call = c => j = k

\* a container with members was met too deep, next to entries that were emitted
C7_Witness ==
    /\ WalkDone
    /\ Len(walked) >= 2
    /\ \E c \in CallIds :
         /\ log.calls[c].depth > MAX_RECURSION_DEPTH
         /\ Listing(log.calls[c].container) # <<>>

(***************************************************************************)
(* C8: in a container that opened, every listed non-directory member gives *)
(* exactly one result at its listing position, whatever happens to the     *)
(* others: one error entry (name, path, size, message) when its read       *)
(* fails, one extracted entry when it is a plain file, one nested walk     *)
(* when it is an archive; a directory gives nothing.                       *)
(***************************************************************************)
C8_ReadFailureIsolated ==
    WalkDone =>
        \A c \in OpenedCalls :
            LET held == log.calls[c].container
                list == Listing(held)
            IN  /\ \A n \in 1..Len(list) :
                     LET p == list[n]
                         r == ReadTarget(held, Nodes[p].name)
                         nested == {d \in CallIds : log.calls[d].caller = c /\ log.calls[d].via = p}
                     IN  IF IsDir(Nodes[p].name)
                         THEN PositionsOf(c, p) = {} /\ nested = {}
                         ELSE IF ~Nodes[r].readable
                         THEN /\ Cardinality(PositionsOf(c, p)) = 1
                              /\ nested = {}
                              /\ \A k \in PositionsOf(c, p) :
                                   /\ walked[k].status = "error"
                                   /\ walked[k].filename = Last(Nodes[p].name)
                                   /\ walked[k].size = Nodes[p].size
                                   /\ HasPath(walked[k])
                                   /\ "error" \in DOMAIN walked[k]
                         ELSE IF IsArchiveFile(Nodes[p].name, Nodes[r].content)[1]
                         THEN PositionsOf(c, p) = {} /\ Cardinality(nested) = 1
                         ELSE /\ Cardinality(PositionsOf(c, p)) = 1
                              /\ nested = {}
                              /\ \A k \in PositionsOf(c, p) :
                                   /\ walked[k].status = "extracted"
                                   /\ walked[k].contents = Nodes[r].content
                \* the entries of one call come in listing order
                /\ \A j, k \in 1..Len(walked) :
                     (walked[j].call = c /\ walked[k].call = c /\ j < k)
                        => walked[j].member < walked[k].member

\* a rar container whose second member cannot be read, between two of other
\* names that can
C8_Witness ==
    /\ WalkDone
    /\ archive.archive_type = "rar"
    /\ Len(walked) = 3
    /\ walked[1].status = "extracted" /\ walked[1].call = 1
    /\ walked[2].status = "error" /\ walked[2].call = 1 /\ HasPath(walked[2])
    /\ walked[3].status = "extracted" /\ walked[3].call = 1
    /\ walked[1].path_in_archive # walked[3].path_in_archive

(***************************************************************************)
(* C9: every entry made for a listed member has pathInArchive equal to the *)
(* currentPath of its container, "/", the member's name (the name alone    *)
(* when currentPath is empty); the currentPath of a nested container is    *)
(* the pathInArchive of the member holding it, that of the uploaded        *)
(* container is empty.                                                     *)
(***************************************************************************)
C9_PathIsParentSlashName ==
    /\ log.calls[1].current_path = <<>>
    /\ \A d \in CallIds :
         log.calls[d].caller # 0 =>
            log.calls[d].current_path =
                SlashJoin(log.calls[log.calls[d].caller].current_path,
                          Nodes[log.calls[d].via].name)
    /\ \A e \in Entries :
         HasPath(e) =>
            e.path_in_archive =
                SlashJoin(log.calls[e.call].current_path, Nodes[e.member].name)

(***************************************************************************)
(* C10: no two entries of the returned list carry the same pathInArchive.  *)
(***************************************************************************)
C10_PathsUnique ==
    WalkDone =>
        \A j, k \in 1..Len(walked) :
            (j # k /\ HasPath(walked[j]) /\ HasPath(walked[k]))
                => walked[j].path_in_archive # walked[k].path_in_archive

\* in every container the names of the non-directory members are relative, and
\* none of them is a path prefix of another's (so no two are equal)
NamesPrefixFree ==
    \A p, q \in 1..Len(Nodes) :
        (~IsDir(Nodes[p].name) /\ ~IsDir(Nodes[q].name)) =>
            /\ ~IsAbs(Nodes[p].name)
            /\ (p # q /\ Nodes[p].parent = Nodes[q].parent)
                  => ~IsPrefix(Nodes[p].name, Nodes[q].name)

(***************************************************************************)
(* C10, amended: when in every container the names of the non-directory    *)
(* members are relative and none is a path prefix of another's, no two     *)
(* entries of the returned list that carry a pathInArchive carry the same. *)
(***************************************************************************)
C10_PathsUniqueWhenNamesPrefixFree ==
    NamesPrefixFree => C10_PathsUnique

\* two members of the same name in different containers, told apart by their paths
C10_Witness ==
    /\ WalkDone
    /\ NamesPrefixFree
    /\ \E j, k \in 1..Len(walked) :
         /\ j # k
         /\ HasPath(walked[j]) /\ HasPath(walked[k])
         /\ walked[j].filename = walked[k].filename
         /\ walked[j].call # walked[k].call

(***************************************************************************)
(* Reading the returned list as a tree walk.                               *)
(***************************************************************************)
\* call d and the calls above it, up to the outermost
RECURSIVE CallChain(_)
CallChain(d) == IF d = 0 THEN {} ELSE {d} \cup CallChain(log.calls[d].caller)

\* entry e was made by call c or by a call nested in it
Under(c, e) == c \in CallChain(e.call)

\* the member of c's container that entry e (under c) arose from
ViaOf(c, e) ==
    IF e.call = c THEN e.member
    ELSE log.calls[CHOOSE d \in CallChain(e.call) : log.calls[d].caller = c].via

\* the uploaded zip holds one nested zip, which holds a readable plain file and
\* an unreadable one, of different relative names
NestedPairScenario ==
    /\ archive.archive_type = "zip" /\ archive.content.format = "zip"
    /\ Len(Nodes) = 3
    /\ Nodes[1].parent = 0 /\ Nodes[2].parent = 1 /\ Nodes[3].parent = 1
    /\ Nodes[1].name = <<"in.zip">> /\ Nodes[1].content.format = "zip" /\ Nodes[1].readable
    /\ \A p \in {2, 3} :
         /\ ~IsDir(Nodes[p].name) /\ ~IsAbs(Nodes[p].name)
         /\ Last(Nodes[p].name) = "a.txt"
    /\ Nodes[2].name # Nodes[3].name
    /\ Nodes[2].readable # Nodes[3].readable

(***************************************************************************)
(* C11: the returned list is in pre-order.  Within every call the entries  *)
(* follow the listing order of the members they arose from; the entries of *)
(* a nested call (and of the calls nested in it) form one contiguous block,*)
(* placed where the member that led to the call stands among its siblings; *)
(* no extracted entry is an archive: a member detected as an archive has   *)
(* no entry of its own.  With a depth limit of at least 1, a zip holding a *)
(* nested zip with one readable text member and one unreadable member      *)
(* yields exactly 2 entries, the extracted one with its bytes and path.    *)
(***************************************************************************)
C11_PreOrder ==
    WalkDone =>
        /\ \A c \in CallIds : \A j, k \in 1..Len(walked) :
              (j < k /\ Under(c, walked[j]) /\ Under(c, walked[k]))
                 => ViaOf(c, walked[j]) <= ViaOf(c, walked[k])
        /\ \A d \in CallIds : \A j, m, k \in 1..Len(walked) :
              (j < m /\ m < k /\ Under(d, walked[j]) /\ Under(d, walked[k]))
                 => Under(d, walked[m])
        /\ \A d \in CallIds : \A k \in 1..Len(walked) :
              (log.calls[d].caller # 0 /\ walked[k].call = log.calls[d].caller)
                 => walked[k].member # log.calls[d].via
        /\ \A k \in 1..Len(walked) :
              walked[k].status = "extracted" =>
                 ~IsArchiveFile(Nodes[walked[k].member].name, walked[k].contents)[1]
        /\ (NestedPairScenario /\ MAX_RECURSION_DEPTH >= 1) =>
              /\ Len(walked) = 2
              /\ \A k \in 1..2 :
                   /\ walked[k].member = k + 1
                   /\ walked[k].path_in_archive = <<"in.zip">> \o Nodes[k + 1].name
                   /\ walked[k].filename = "a.txt"
                   /\ IF Nodes[k + 1].readable
                      THEN /\ walked[k].status = "extracted"
                           /\ walked[k].contents = Nodes[k + 1].content
                      ELSE walked[k].status = "error"

\* the scenario of the nested pair, walked to the end
C11_Witness ==
    /\ WalkDone
    /\ NestedPairScenario
    /\ MAX_RECURSION_DEPTH >= 1
    /\ Len(walked) = 2
    /\ walked[1].call = 2 /\ walked[2].call = 2
    /\ {walked[1].status, walked[2].status} = {"extracted", "error"}

(***************************************************************************)
(* The extension a name ends with, read off the name itself.               *)
(***************************************************************************)
NamedZip(name) == Last(name) \in {"in.zip", "IN.ZIP", "In.Zip", ".zip"}

NamedRar(name) == Last(name) \in {"in.rar", "IN.RAR"}

(***************************************************************************)
(* C12: is_archive_file gives the extension priority over the signature.   *)
(* A name ending in .zip (any case) yields (true, zip) whatever the        *)
(* content, absent or invalid included; a name ending in .rar yields       *)
(* (true, rar) whatever the content, a zip signature included; with        *)
(* neither extension a leading PK 03 04 or PK 05 06 yields (true, zip), a  *)
(* leading Rar! 1A 07 yields (true, rar), and anything else (false, none). *)
(***************************************************************************)
C12_ExtensionBeforeSignature ==
    detect.ret # <<>> =>
        LET name == detect.filename
            sig == detect.contents.sig
        IN  /\ NamedZip(name) => detect.ret = <<TRUE, "zip">>
            /\ NamedRar(name) => detect.ret = <<TRUE, "rar">>
            /\ (~NamedZip(name) /\ ~NamedRar(name)) =>
                  /\ sig \in {"PK34", "PK56"} => detect.ret = <<TRUE, "zip">>
                  /\ sig = "Rar!" => detect.ret = <<TRUE, "rar">>
                  /\ sig \notin {"PK34", "PK56", "Rar!"} => detect.ret = <<FALSE, "">>

\* a name in .RAR whose content is a valid zip is taken for a rar
C12_Witness ==
    /\ detect.ret = <<TRUE, "rar">>
    /\ detect.filename = <<"d", "IN.RAR">>
    /\ detect.contents = Bytes(0, "PK34", "zip")

(***************************************************************************)
(* Reading a force-OCR run against the document.                           *)
(***************************************************************************)
ForceReturned == pc = "f_done"

ForceReturnedOk == pc = "f_done" /\ result.status # "error"

LowPages == {k \in PageIds : IsLowPage(k)}

\* s lists the members of set S in increasing order, each once
ListsInOrder(s, S) ==
    /\ Elems(s) = S
    /\ Len(s) = Cardinality(S)
    /\ \A j, k \in 1..Len(s) : j < k => s[j] < s[k]

(***************************************************************************)
(* C14: process_pdf_force_ocr visits every page and sends every low-text   *)
(* page to OCR: on every non-error return pages_scanned = total_pages =    *)
(* the page count, pages_ocr_applied = the number of pages whose trimmed   *)
(* native text is shorter than pageTextThreshold, and exactly those pages  *)
(* were rendered and OCRed, whatever OCR returned and whatever             *)
(* maxPagesToCheck is.                                                     *)
(***************************************************************************)
C14_ForceScansEveryPage ==
    ForceReturnedOk =>
        /\ result.debug.total_pages = NumPages
        /\ result.debug.pages_scanned = NumPages
        /\ result.debug.pages_ocr_applied = Cardinality(LowPages)
        /\ ListsInOrder(calls.load_page, PageIds)
        /\ ListsInOrder(calls.render, LowPages)
        /\ ListsInOrder(calls.ocr, LowPages)

\* more low-text pages than the sampling budget of triage, and an OCR result
\* above ocrCharThreshold on a page that is not the last
C14_Witness ==
    /\ ForceReturnedOk
    /\ Cardinality(LowPages) > OCR_MAX_PAGES_TO_CHECK
    /\ OCR_MAX_PAGES_TO_CHECK > 0
    /\ \E k \in LowPages : k + 1 < NumPages /\ OcrLen(k) > OCR_PAGE_CHAR_THRESHOLD

\* some low-text page cannot be rendered
RenderFails == \E k \in PageIds : IsLowPage(k) /\ ~pdf.pages[k + 1].renders

\* the accumulated contributions hold a character that is not whitespace
VisibleText == \E k \in 1..Len(accumulated_text) : accumulated_text[k].n > 0

C18_OpenFailureIsTerminal ==
    ~pdf.opens =>
        /\ calls.open <= 1
        /\ calls.load_page = <<>> /\ calls.render = <<>> /\ calls.ocr = <<>>
        /\ debug.pages_scanned = 0
        /\ pc \in {"open", "done", "f_open", "f_done"}
        /\ pc = "done" =>
              /\ calls.open = 1
              /\ result.classification = "error"
              /\ result.text = EmptyString
              /\ result.debug = [error |-> "open failed"]
        /\ pc = "f_done" =>
              /\ calls.open = 1
              /\ result.status = "error"
              /\ result.text = EmptyString
              /\ result.debug = [error |-> "open failed"]

\* the force pass has returned on a document that does not open
C18_Witness ==
    /\ ~pdf.opens
    /\ pc = "f_done"
    /\ calls.open = 1
    /\ result.status = "error"

(***************************************************************************)
(* C16: a temporary file made for a rar container is gone when the call    *)
(* that made it returns, on every exit path: every temporary file on disk  *)
(* belongs to a call that is still active, and none is left once the       *)
(* outermost call has returned.                                            *)
(***************************************************************************)
C16_TempFileGone ==
    /\ tmp_files \subseteq {stack[k].tmp_path : k \in 1..Len(stack)}
    /\ WalkDone => tmp_files = {}

\* the calls that got past the depth guard and whose container did not open
FailedCalls ==
    {c \in CallIds : /\ log.calls[c].depth <= MAX_RECURSION_DEPTH
                     /\ c \notin OpenedCalls
                     /\ \A k \in 1..Len(stack) : stack[k].call # c}

(***************************************************************************)
(* C19: a call whose container cannot be opened, at any depth and for      *)
(* either format, returns exactly one error entry, named by its            *)
(* currentPath or "root" when that is empty and carrying the message; it   *)
(* reads no member and makes no nested call.  When the container is        *)
(* nested, the walk of the enclosing container goes on: every other        *)
(* non-directory member of it still gets its result.                       *)
(***************************************************************************)
C19_OpenFailureOneEntry ==
    WalkDone =>
        \A c \in FailedCalls :
            /\ Cardinality({k \in 1..Len(walked) : walked[k].call = c}) = 1
            /\ \A k \in 1..Len(walked) :
                  walked[k].call = c =>
                     /\ walked[k].status = "error"
                     /\ walked[k].filename =
                            (IF log.calls[c].current_path = <<>> THEN <<"root">>
                             ELSE log.calls[c].current_path)
                     /\ "error" \in DOMAIN walked[k]
                     /\ DOMAIN walked[k] \cap {"contents", "path_in_archive", "size"} = {}
            /\ \A k \in 1..Len(log.read) : log.read[k].call # c
            /\ \A d \in CallIds : log.calls[d].caller # c
            /\ c = 1 => Len(walked) = 1
            /\ c # 1 =>
                  LET up == log.calls[c].caller
                      list == Listing(log.calls[up].container)
                  IN  \A n \in 1..Len(list) :
                         (list[n] # log.calls[c].via /\ ~IsDir(Nodes[list[n]].name)) =>
                            \/ PositionsOf(up, list[n]) # {}
                            \/ \E d \in CallIds :
                                  log.calls[d].caller = up /\ log.calls[d].via = list[n]

\* a nested container that does not open, between two members that are extracted
C19_Witness ==
    /\ WalkDone
    /\ Len(walked) = 3
    /\ walked[1].status = "extracted" /\ walked[1].call = 1
    /\ walked[2].status = "error" /\ walked[2].call = 2 /\ 2 \in FailedCalls
    /\ walked[2].filename = <<"in.zip">>
    /\ walked[3].status = "extracted" /\ walked[3].call = 1

(***************************************************************************)
(* Reading a request against the upload.                                   *)
(***************************************************************************)
Answered == response # NoResponse

\* the container format the leading bytes of the upload announce, "" for none
SignatureOf(contents) ==
    IF contents.sig \in {"PK34", "PK56"} /\ contents.format = "zip" THEN "zip"
    ELSE IF contents.sig = "Rar!" THEN "rar"
    ELSE ""

(***************************************************************************)
(* C13: in each of process_file, only_ocr and process_archive the          *)
(* container type of an upload is decided by its content signature when    *)
(* one matches, whatever its name: an upload named .rar whose content is a *)
(* valid zip is walked as zip.                                             *)
(***************************************************************************)
C13_IngressBySignature ==
    (opc # "ingress" /\ file.holds = "archive" /\ SignatureOf(archive.content) # "") =>
        /\ ingress.is_archive
        /\ ingress.archive_type = SignatureOf(archive.content)

\* the reader for the type the handler decided on accepts the uploaded bytes
TopLevelOpens == archive.content.format = ingress.archive_type

(***************************************************************************)
(* C17: a request fails as a whole exactly when its top-level document or  *)
(* container cannot be opened.  With a container that opens, the answer is *)
(* processed whatever entries could not be read, were too deep or did not  *)
(* open; with a PDF that opens and renders, the answer is no error         *)
(* whatever the OCR engine did; with a PDF or a container that does not    *)
(* open, the answer is a failure and not processed.                        *)
(***************************************************************************)
C17_OnlyTopLevelOpenEscalates ==
    Answered =>
        /\ ingress.is_archive =>
              /\ (TopLevelOpens /\ 1 \in OpenedCalls) => response.status = "processed"
              /\ ~TopLevelOpens => response.status # "processed"
        /\ (~ingress.is_archive /\ file.holds = "pdf" /\ endpoint # "process_archive") =>
              /\ ~pdf.opens => response.status = "error"
              /\ (pdf.opens /\ ~RenderFails) =>
                    response.status \notin {"error", "http_400", "http_500"}

\* the entries whose bytes the walker or the handler is holding
BuffersHeld ==
    IF opc = "done" THEN {} ELSE {e \in Entries : "contents" \in DOMAIN e}

(***************************************************************************)
(* C20: at any moment of a request the bytes of at most one leaf entry are *)
(* held by the walker and the handler together.                            *)
(***************************************************************************)
C20_OneBufferAtATime ==
    Cardinality(BuffersHeld) <= 1

(***************************************************************************)
(* What each page of the document hands to the text of a triage run that   *)
(* reaches the end of the document, stated on the document alone.          *)
(***************************************************************************)
\* what quick OCR yields for page k: "" when the engine call fails
OcrResult(k) ==
    IF pdf.pages[k + 1].ocrRaises THEN EmptyText ELSE pdf.pages[k + 1].ocrText

\* the contribution of page k to a complete triage run: a sequence of at most
\* one text
TriageContribution(k) ==
    IF ~IsLowPage(k) THEN <<Strip(pdf.pages[k + 1].text)>>
    ELSE IF SampledPage(k) /\ OcrResult(k) # EmptyText
              /\ OcrLen(k) <= OCR_PAGE_CHAR_THRESHOLD
         THEN <<OcrResult(k)>>
         ELSE <<>>

\* the contributions of pages 0 .. n-1, in page order
RECURSIVE TriageContributions(_)
TriageContributions(n) ==
    IF n = 0 THEN <<>> ELSE TriageContributions(n - 1) \o TriageContribution(n - 1)

\* the run visited every page and left by the end of the loop
ScannedToEnd == ReturnedOk /\ result.debug.reason = NoReason

\* a sampled page whose OCR gave nothing although it has some native text
SilentSample(k) ==
    /\ SampledPage(k)
    /\ pdf.pages[k + 1].renders
    /\ OcrResult(k) = EmptyText
    /\ NativeLen(k) > 0

(***************************************************************************)
(* C21: when triage_pdf_fail_fast visits all pages without an early exit,  *)
(* the returned text is the blank-line-separated concatenation, in page    *)
(* order, of the trimmed native text of each page at or above              *)
(* pageTextThreshold and of the OCR text of each sampled low-text page     *)
(* whose OCR result is non-empty with trimmed length <= ocrCharThreshold;  *)
(* a sampled page whose OCR is empty or failed contributes nothing (its    *)
(* native text is not appended), still costs one unit of the budget, and   *)
(* the scan goes on.  A one-page document with a short native text and an  *)
(* empty OCR returns pagesOcrChecked = 1, single_page_pdf and no text.     *)
(***************************************************************************)
C21_FullScanText ==
    ScannedToEnd =>
        /\ accumulated_text = TriageContributions(NumPages)
        /\ result.text = Join(TriageContributions(NumPages))
        /\ result.debug.pages_scanned = NumPages
        /\ result.debug.pages_ocr_checked = Cardinality(LowPages)
        /\ \A k \in LowPages : SampledPage(k) /\ k \in Elems(calls.ocr)
        /\ \A k \in PageIds :
             SilentSample(k) =>
                \A n \in 1..Len(result.text.chunks) :
                    result.text.chunks[n] # Strip(pdf.pages[k + 1].text)
        /\ (NumPages = 1 /\ SilentSample(0)) =>
              /\ result.debug.pages_ocr_checked = 1
              /\ result.classification = "single_page_pdf"
              /\ result.text = EmptyString

\* a complete run over a page of native text, then a sampled page whose OCR
\* came back empty and did not fail, then a sampled page with a short OCR text
C21_Witness ==
    /\ ScannedToEnd
    /\ NumPages = 3
    /\ ~IsLowPage(0)
    /\ SilentSample(1) /\ ~pdf.pages[2].ocrRaises
    /\ SampledPage(2) /\ OcrLen(2) = OCR_PAGE_CHAR_THRESHOLD
    /\ Len(result.text.chunks) = 2
    /\ result.debug.pages_ocr_checked = 2

(***************************************************************************)
(* What each page of the document hands to the text of a force-OCR run,    *)
(* stated on the document alone.                                           *)
(***************************************************************************)
\* the contribution of page k: a sequence of at most one text
ForceContribution(k) ==
    IF ~IsLowPage(k) THEN <<Strip(pdf.pages[k + 1].text)>>
    ELSE IF OcrResult(k).n + OcrResult(k).pad > 0 THEN <<OcrResult(k)>>
    ELSE IF NativeLen(k) > 0 THEN <<Strip(pdf.pages[k + 1].text)>>
    ELSE <<>>

\* the contributions of pages 0 .. n-1, in page order
RECURSIVE ForceContributions(_)
ForceContributions(n) ==
    IF n = 0 THEN <<>> ELSE ForceContributions(n - 1) \o ForceContribution(n - 1)

\* some contribution holds a character that is not whitespace
SomeVisible(parts) == \E k \in 1..Len(parts) : parts[k].n > 0

\* a page with nothing to give: no native text and no OCR text
Speechless(k) ==
    IsLowPage(k) /\ NativeLen(k) = 0 /\ OcrResult(k).n + OcrResult(k).pad = 0

AllNative == pdf.opens /\ \A k \in PageIds : ~IsLowPage(k)

\* the trimmed native texts of the pages, in page order, blank-line separated
NativeTexts == Join([k \in 1..NumPages |-> Strip(pdf.pages[k].text)])

\* triage has returned, then force OCR has returned
BothReturned == pc = "f_done" /\ triaged # NoTriaged

(***************************************************************************)
(* C23: for a PDF that opens and whose pages all have trimmed native text  *)
(* of length >= pageTextThreshold, triage_pdf_fail_fast and                *)
(* process_pdf_force_ocr return the same text, the blank-line-separated    *)
(* native texts in page order; neither renders a page nor runs OCR; with   *)
(* at least one page force returns processed.  Whenever the two returned   *)
(* texts differ, the document has a low-text page.                         *)
(***************************************************************************)
C23_PassesAgreeOnNativeDocuments ==
    /\ AllNative =>
         /\ calls.render = <<>> /\ calls.ocr = <<>>
         /\ triaged.calls.render = <<>> /\ triaged.calls.ocr = <<>>
    /\ (BothReturned /\ AllNative) =>
         /\ triaged.result.text = NativeTexts
         /\ result.text = NativeTexts
         /\ result.text = triaged.result.text
         /\ triaged.result.debug.pages_ocr_checked = 0
         /\ result.debug.pages_ocr_applied = 0
         /\ NumPages >= 1 => result.status = "processed"
    /\ (BothReturned /\ result.text # triaged.result.text) =>
         /\ pdf.opens
         /\ \E k \in PageIds : IsLowPage(k)

\* both passes have returned on a document of several pages, all of them with
\* enough native text
C23_Witness ==
    /\ BothReturned
    /\ AllNative
    /\ NumPages >= 2
    /\ result.status = "processed"
    /\ Len(result.text.chunks) = NumPages
    /\ triaged.result.classification \in
          {"multipage_pdf_with_images", "multipage_pdf_text_only"}
    /\ Len(triaged.calls.load_page) = NumPages

(***************************************************************************)
(* C24: for a leaf recognised as a PDF, process_file_content answers       *)
(* processed with the triage text exactly when triage returned a non-empty *)
(* text, and requires_ocr with no text otherwise, whatever the triage      *)
(* classification: a fail-fast stop, a document scanned to the end without *)
(* text and a triage error are all answered requires_ocr, and the failure  *)
(* message of triage is not put in the error field of the leaf.            *)
(***************************************************************************)
C24_PdfLeafByTextAlone ==
    leaf # NoLeaf =>
        /\ leaf.status \in {"processed", "requires_ocr"}
        /\ leaf.status = "processed" <=> result.text # EmptyString
        /\ leaf.status = "processed" =>
              leaf.extracted_text = result.text /\ leaf.error = "None"
        /\ leaf.status = "requires_ocr" =>
              leaf.extracted_text = "None" /\ leaf.error = "PDF requer OCR"
        /\ result.classification = "error" =>
              leaf.status = "requires_ocr" /\ leaf.error # result.debug.error
        /\ (ReturnedOk /\ result.debug.reason # NoReason) => leaf.status = "requires_ocr"
        /\ (ScannedToEnd /\ accumulated_text = <<>>) => leaf.status = "requires_ocr"

\* the document of the leaf does not open: triage answers error with its
\* message, the leaf is answered requires_ocr
C24_Witness ==
    /\ leaf # NoLeaf
    /\ ~pdf.opens
    /\ result.classification = "error"
    /\ result.debug.error = "open failed"
    /\ leaf.status = "requires_ocr"
    /\ leaf.error = "PDF requer OCR"

(***************************************************************************)
(* Reading a call of either PDF pass or of the walker to its end.          *)
(***************************************************************************)
\* the call under study has returned
CallDone == pc \in {"done", "f_done"} \/ WalkDone

\* the members call c went through with archive.read, in the order it did
ReadBy(c) ==
    LET mine == SelectSeq(log.read, LAMBDA r : r.call = c)
    IN  [n \in 1..Len(mine) |-> mine[n].member]

\* the listing of the container call c works on, without its directory entries
FilesListed(c) ==
    SelectSeq(Listing(log.calls[c].container), LAMBDA m : ~IsDir(Nodes[m].name))

\* sequence s is the beginning of sequence t
IsBeginning(s, t) == Len(s) <= Len(t) /\ s = SubSeq(t, 1, Len(s))

\* the calls whose container was opened
CallsOpened == {log.opened[n].call : n \in {k \in 1..Len(log.opened) : log.opened[k].ok}}

\* what holds all along a call
CallWithinBounds ==
    /\ Len(calls.load_page) <= NumPages
    /\ \A n \in 1..Len(calls.load_page) : calls.load_page[n] = n - 1
    /\ debug.pages_scanned <= NumPages
    /\ pc \in {"done", "f_done"} => result # NoResult
    /\ Len(stack) <= MAX_RECURSION_DEPTH + 2
    /\ \A j \in 1..Len(stack) : stack[j].depth = j - 1
    /\ \A c \in 1..Len(log.calls) :
         /\ log.calls[c].depth <= MAX_RECURSION_DEPTH + 1
         /\ IsBeginning(ReadBy(c), FilesListed(c))
         /\ c \notin CallsOpened => ReadBy(c) = <<>>
    /\ WalkDone => \A c \in CallsOpened : ReadBy(c) = FilesListed(c)

(***************************************************************************)
(* C25: every call terminates with a result: triage_pdf_fail_fast and      *)
(* process_pdf_force_ocr return after loading each page at most once, in   *)
(* index order (at most totalPages loads); extract_archive_recursive       *)
(* returns for every container, its chain of active calls is never longer  *)
(* than maxRecursionDepth + 2 (depths 0 to maxRecursionDepth + 1), and a   *)
(* call that opened its container goes through the listed members in       *)
(* order, each exactly once.                                               *)
(***************************************************************************)
C25_EveryCallReturns == []CallWithinBounds /\ <>CallDone

\* a walk has returned after its chain of calls reached depth
\* maxRecursionDepth + 1 through two nested containers
C25_Witness ==
    /\ WalkDone
    /\ MAX_RECURSION_DEPTH >= 1
    /\ \E c \in 1..Len(log.calls) : log.calls[c].depth = MAX_RECURSION_DEPTH + 1
    /\ Cardinality(CallsOpened) >= 2
    /\ Len(log.read) >= 2

====
